---- MODULE Spec2Model ----
(***************************************************************************)
(* Model of core/instance.go of AutoSpotting: the swap of a spot instance  *)
(* with an on-demand member of an auto-scaling group                       *)
(* (swapWithGroupMember), the predicate shouldBeReplacedWithSpot, the      *)
(* launch loop launchSpotReplacement, the instance registry, the pure      *)
(* functions that build the launch request, and connect() of               *)
(* core/connections.go.                                                    *)
(***************************************************************************)
EXTENDS Integers, Sequences, FiniteSets, TLC

(* ------------------------------ bounds --------------------------------- *)

\* number of swapWithGroupMember calls (one spot instance each)
NumSwaps == 2
\* the group's max size at start lies in desired .. desired + ExtraMax
ExtraMax == 1
\* longest ranked candidate list handed to the launch loop
MaxTypes == 3
\* number of threads that each call one operation of the registry
NumOps == 3
\* most instance types in a small catalog of the region
MaxCatalog == 2
\* number of instance types in a large catalog of the region
ManyTypes == 13
\* highest price, in whole price units
MaxPrice == 3
\* most tags on the instance to replace
MaxTags == 2
\* most block device mappings of an image, launch configuration or template
MaxBDMs == 2
\* latest time, in seconds
MaxTime == 3

(* ------------------------------ universe ------------------------------- *)

Swaps == 1..NumSwaps

\* The spot instance of swap call s has instance id s.
SpotId(s) == s

\* ids of the on-demand instances that are members of the group at start
ODIds == {101, 102}

\* a nil *string
Nil == 0

\* a nil *instance
NilInstance == [lifecycle |-> "nil", asgTag |-> "nil"]

\* the one enabled group of the region (region.enabledASGs)
GroupName == "asg"
NoGroup == "none"

InstanceStates == {"running", "terminated"}

\* what DescribeInstanceAttribute(disableApiTermination) can answer
DescribeOutcomes == {"error", "protected", "unprotected"}

\* instance records the scanner can put into the registry for an id
InstanceRecords == [lifecycle : {"spot", "normal"}, asgTag : {GroupName, NoGroup}]

VARIABLES
    group,              \* the auto-scaling group as the cloud sees it
    catalog,            \* instanceManager.catalog: id -> record, NilInstance if absent
    calls,              \* the cloud API calls issued so far, in order
    pc,                 \* position of each swapWithGroupMember call
    spotState,          \* i.State.Name of each spot instance
    odInstanceID,       \* i.getReplacementTargetInstanceID() of each spot instance
    asgDesiredCapacity, \* *asg.DesiredCapacity of the handle given to the call
    asgMaxSize,         \* *asg.MaxSize of the handle given to the call
    deferred,           \* deferred calls of each swap call, next to run first
    odInstance,         \* the record the call got from the registry
    checked,            \* inputs and verdict of shouldBeReplacedWithSpot in the call
    result,             \* error returned by each swap call ("ok" for nil)
    replaced,           \* instance returned by each swap call
    lpc,                \* position of launchSpotReplacement
    instanceTypes,      \* ranked candidate list of launchSpotReplacement
    lIdx,               \* loop position in instanceTypes
    attempts,           \* outcome of every iteration of the launch loop
    lResult,            \* value returned by launchSpotReplacement
    rw,                 \* the registry's sync.RWMutex: readers inside, writers waiting
    itpc,               \* position of the goroutine started by instances()
    toSend,             \* ids the range loop of that goroutine has yet to send
    snapshot,           \* the catalog as it was when that goroutine took the read lock
    delivered,          \* the records the consumer received from the channel
    cpc,                \* position of the consumer of the channel
    nested,             \* whether the consumer calls get() for each record it receives
    oppc,               \* position of each thread that calls one registry operation
    opReq,              \* the registry operation of each such thread
    opRet,              \* what that operation returned
    history,            \* the registry operations that have taken effect, in order
    args,               \* the arguments of a call of a pure function
    called,             \* whether the function has been called
    ret,                \* what the function returned
    conn,               \* the connections struct connect() is called on
    connArgs,           \* the region given to connect() and the session it found
    mpc,                \* position of connect()
    gpc,                \* position of each goroutine started by connect()
    made,               \* the client each goroutine created
    recvd               \* the clients connect() has received, in order

swapVars == <<group, catalog, calls, pc, spotState, odInstanceID, asgDesiredCapacity,
              asgMaxSize, deferred, odInstance, checked, result, replaced>>
launchVars == <<lpc, instanceTypes, lIdx, attempts, lResult>>
registryVars == <<rw, itpc, toSend, snapshot, delivered, cpc, nested, oppc, opReq, opRet,
                  history>>
callVars == <<args, called, ret>>
connVars == <<conn, connArgs, mpc, gpc, made, recvd>>
restVars == <<registryVars, callVars, connVars>>
vars == <<swapVars, launchVars, restVars>>

(* ------------------------- cloud API of the group ---------------------- *)

\* ok is the outcome of a call whose outcome the caller looks at (attach,
\* terminate in group); the other calls are recorded as issued.
Call(s, op, arg, ok) == [swap |-> s, op |-> op, arg |-> arg, ok |-> ok]

suspendProcesses(g) == [g EXCEPT !.suspended = TRUE]

resumeProcesses(g) == [g EXCEPT !.suspended = FALSE]

setAutoScalingMaxSize(g, n) == [g EXCEPT !.maxSize = n]

\* An attach that raises the desired capacity is rejected when the capacity
\* would exceed the max size (the reason for the temporary increase).
attachAllowed(g, increment) == ~increment \/ g.desired + 1 <= g.maxSize

attachSpotInstance(g, id, increment) ==
    [g EXCEPT !.members = @ \cup {id},
              !.desired = IF increment THEN @ + 1 ELSE @]

\* the arguments of line 1108: decrement the desired capacity, mark unhealthy
TerminateArgsKeepCapacity == [decrement |-> FALSE, unhealthy |-> TRUE]

TerminateArgs == [decrement |-> TRUE, unhealthy |-> TRUE]

terminateAllowed(g, id) == id \in g.members

terminateInstanceInAutoScalingGroup(g, id, decrement, unhealthy) ==
    [g EXCEPT !.members = @ \ {id},
              !.desired = IF decrement THEN @ - 1 ELSE @]

(* ----------------------------- instance -------------------------------- *)

canTerminate(state) == state # "terminated" /\ state # "shutting-down"

\* terminate with the canTerminate test inverted
terminateInverted(s) ==
    IF canTerminate(spotState[s])
    THEN <<>>
    ELSE <<Call(s, "TerminateInstances", SpotId(s), TRUE)>>

\* instance.terminate: the calls it issues (none when the instance cannot be
\* terminated); the callers in the swap ignore the outcome of the call.
terminate(s) ==
    IF ~canTerminate(spotState[s])
    THEN <<>>
    ELSE <<Call(s, "TerminateInstances", SpotId(s), TRUE)>>

\* a describe error that does not count as protection
isProtectedFromTerminationUnsafe(dia) ==
    IF dia = "protected" THEN <<TRUE, FALSE>>
    ELSE <<FALSE, dia = "error">>

\* instance.isProtectedFromTermination: <<protected, err>>
isProtectedFromTermination(dia) ==
    IF dia = "error" THEN <<TRUE, TRUE>>
    ELSE IF dia = "protected" THEN <<TRUE, FALSE>>
    ELSE <<FALSE, FALSE>>

isSpot(inst) == inst.lifecycle = "spot"

belongsToAnASG(inst) == inst.asgTag # NoGroup

belongsToEnabledASG(inst) == belongsToAnASG(inst) /\ inst.asgTag = GroupName

isProtectedFromScaleIn(g, id) == id \in g.members /\ id \in g.scaleInProtected

shouldBeReplacedWithSpot(inst, id, g, needsReplacement, dia) ==
    LET protT == isProtectedFromTermination(dia)[1]
    IN  /\ belongsToEnabledASG(inst)
        /\ needsReplacement
        /\ ~isSpot(inst)
        /\ ~isProtectedFromScaleIn(g, id)
        /\ ~protT

(* ------------------------------ deferral ------------------------------- *)

\* deferred calls run first-in first-out
PushDeferFifo(stack, call) == Append(stack, call)

\* Go runs deferred calls last-in first-out: the head of the sequence runs next.

PushDefer(stack, call) == <<call>> \o stack

NotChecked == [done |-> FALSE, needs |-> FALSE, dia |-> "none", verdict |-> FALSE]

(* ------------------------------- Init ---------------------------------- *)

InitSwap ==
    /\ \E m \in 0..ExtraMax, prot \in SUBSET ODIds :
          group = [suspended |-> FALSE,
                   desired |-> Cardinality(ODIds),
                   maxSize |-> Cardinality(ODIds) + m,
                   members |-> ODIds,
                   scaleInProtected |-> prot]
    /\ catalog = [id \in ODIds |-> NilInstance]
    /\ calls = <<>>
    /\ pc = [s \in Swaps |-> "idle"]
    /\ spotState \in [Swaps -> InstanceStates]
    /\ odInstanceID \in [Swaps -> ODIds \cup {Nil}]
    /\ asgDesiredCapacity = [s \in Swaps |-> 0]
    /\ asgMaxSize = [s \in Swaps |-> 0]
    /\ deferred = [s \in Swaps |-> <<>>]
    /\ odInstance = [s \in Swaps |-> NilInstance]
    /\ checked = [s \in Swaps |-> NotChecked]
    /\ result = [s \in Swaps |-> "none"]
    /\ replaced = [s \in Swaps |-> Nil]

InitLaunchIdle ==
    /\ lpc = "idle"
    /\ instanceTypes = <<>>
    /\ lIdx = 0
    /\ attempts = <<>>
    /\ lResult = [id |-> Nil, err |-> "none"]

\* no thread uses the registry
InitRegistryIdle ==
    /\ rw = [readers |-> 0, waiting |-> {}]
    /\ itpc = "idle"
    /\ toSend = {}
    /\ snapshot = [id \in ODIds |-> NilInstance]
    /\ delivered = <<>>
    /\ cpc = "idle"
    /\ nested = FALSE
    /\ oppc = <<>>
    /\ opReq = <<>>
    /\ opRet = <<>>
    /\ history = <<>>

\* no pure function is called
InitCallIdle ==
    /\ args = <<>>
    /\ called = FALSE
    /\ ret = <<>>

\* connect() is not called
InitConnIdle ==
    /\ conn = <<>>
    /\ connArgs = <<>>
    /\ mpc = "off"
    /\ gpc = <<>>
    /\ made = <<>>
    /\ recvd = <<>>

InitRestIdle == InitRegistryIdle /\ InitCallIdle /\ InitConnIdle

Init == InitSwap /\ InitLaunchIdle /\ InitRestIdle

(* --------------------------- swapWithGroupMember ------------------------ *)

Finish(s, err, inst) ==
    /\ result' = [result EXCEPT ![s] = err]
    /\ replaced' = [replaced EXCEPT ![s] = inst]

\* The caller hands a running, ready spot instance and the group handle to
\* swapWithGroupMember; the handle carries the group's sizes.
SwapCall(s) ==
    /\ pc[s] = "idle"
    /\ spotState[s] = "running"
    /\ asgDesiredCapacity' = [asgDesiredCapacity EXCEPT ![s] = group.desired]
    /\ asgMaxSize' = [asgMaxSize EXCEPT ![s] = group.maxSize]
    /\ pc' = [pc EXCEPT ![s] = "scan"]
    /\ UNCHANGED <<group, catalog, calls, spotState, odInstanceID, deferred,
                   odInstance, checked, result, replaced, launchVars, restVars>>

\* the same, when the callers run the swaps of a group one after the other
SwapCallInTurn(s) ==
    /\ \A t \in Swaps : t < s => pc[t] = "done" \/ spotState[t] # "running"
    /\ \A t \in Swaps : t > s => pc[t] = "idle"
    /\ SwapCall(s)

\* region.scanInstance: describes the instance and registers what it found
scanInstance(id, found) ==
    IF found = NilInstance THEN catalog ELSE [catalog EXCEPT ![id] = found]

\* lines 1058-1067: the target tag and the scan of the target
SwapScan(s) ==
    /\ pc[s] = "scan"
    /\ \/ /\ odInstanceID[s] = Nil
          /\ pc' = [pc EXCEPT ![s] = "done"]
          /\ Finish(s, "no-target", Nil)
          /\ UNCHANGED <<catalog, calls>>
       \/ /\ odInstanceID[s] # Nil
          /\ pc' = [pc EXCEPT ![s] = "done"]
          /\ Finish(s, "not-described", Nil)
          /\ UNCHANGED <<catalog, calls>>
       \/ /\ odInstanceID[s] # Nil
          /\ \E found \in InstanceRecords \cup {NilInstance} :
                catalog' = scanInstance(odInstanceID[s], found)
          /\ pc' = [pc EXCEPT ![s] = "get"]
          /\ UNCHANGED <<calls, result, replaced>>
    /\ UNCHANGED <<group, spotState, odInstanceID, asgDesiredCapacity, asgMaxSize,
                   deferred, odInstance, checked, launchVars, restVars>>

\* lines 1069-1073: the registry lookup of the target
SwapGet(s) ==
    /\ pc[s] = "get"
    /\ odInstance' = [odInstance EXCEPT ![s] = catalog[odInstanceID[s]]]
    /\ IF catalog[odInstanceID[s]] = NilInstance
       THEN /\ pc' = [pc EXCEPT ![s] = "done"]
            /\ Finish(s, "missing", Nil)
       ELSE /\ pc' = [pc EXCEPT ![s] = "check"]
            /\ UNCHANGED <<result, replaced>>
    /\ UNCHANGED <<group, catalog, calls, spotState, odInstanceID, asgDesiredCapacity,
                   asgMaxSize, deferred, checked, launchVars, restVars>>

\* a failed check that falls through to the swap
SwapCheckFallThrough(s) ==
    /\ pc[s] = "check"
    /\ \E needs \in BOOLEAN, dia \in DescribeOutcomes :
          LET verdict == shouldBeReplacedWithSpot(odInstance[s], odInstanceID[s],
                                                  group, needs, dia)
          IN  /\ checked' = [checked EXCEPT ![s] =
                     [done |-> TRUE, needs |-> needs, dia |-> dia, verdict |-> verdict]]
              /\ calls' = IF verdict THEN calls ELSE calls \o terminate(s)
              /\ pc' = [pc EXCEPT ![s] = "suspend"]
              /\ IF verdict
                 THEN UNCHANGED <<result, replaced>>
                 ELSE Finish(s, "not-replaceable", Nil)
    /\ UNCHANGED <<group, catalog, spotState, odInstanceID, asgDesiredCapacity,
                   asgMaxSize, deferred, odInstance, launchVars, restVars>>

\* lines 1075-1080: the target must still be replaceable
SwapCheck(s) ==
    /\ pc[s] = "check"
    /\ \E needs \in BOOLEAN, dia \in DescribeOutcomes :
          LET verdict == shouldBeReplacedWithSpot(odInstance[s], odInstanceID[s],
                                                  group, needs, dia)
          IN  /\ checked' = [checked EXCEPT ![s] =
                     [done |-> TRUE, needs |-> needs, dia |-> dia, verdict |-> verdict]]
              /\ IF ~verdict
                 THEN /\ calls' = calls \o terminate(s)
                      /\ pc' = [pc EXCEPT ![s] = "done"]
                      /\ Finish(s, "not-replaceable", Nil)
                 ELSE /\ pc' = [pc EXCEPT ![s] = "suspend"]
                      /\ UNCHANGED <<calls, result, replaced>>
    /\ UNCHANGED <<group, catalog, spotState, odInstanceID, asgDesiredCapacity,
                   asgMaxSize, deferred, odInstance, launchVars, restVars>>

\* lines 1082-1083: suspend the group's processes, defer their resumption
SwapSuspend(s) ==
    /\ pc[s] = "suspend"
    /\ group' = suspendProcesses(group)
    /\ calls' = Append(calls, Call(s, "SuspendProcesses", Nil, TRUE))
    /\ deferred' = [deferred EXCEPT ![s] = PushDefer(@, [op |-> "resumeProcesses", arg |-> Nil])]
    /\ pc' = [pc EXCEPT ![s] = "maxsize"]
    /\ UNCHANGED <<catalog, spotState, odInstanceID, asgDesiredCapacity, asgMaxSize,
                   odInstance, checked, result, replaced, launchVars, restVars>>

\* a temporary increase of the max size that is not taken back
SwapMaxSizeNoRestore(s) ==
    /\ pc[s] = "maxsize"
    /\ LET desiredCapacity == asgDesiredCapacity[s]
           maxSize == asgMaxSize[s]
       IN  IF desiredCapacity = maxSize
           THEN /\ group' = setAutoScalingMaxSize(group, maxSize + 1)
                /\ calls' = Append(calls, Call(s, "SetMaxSize", maxSize + 1, TRUE))
           ELSE UNCHANGED <<group, calls>>
    /\ pc' = [pc EXCEPT ![s] = "attach"]
    /\ UNCHANGED <<catalog, spotState, odInstanceID, asgDesiredCapacity, asgMaxSize,
                   deferred, odInstance, checked, result, replaced, launchVars, restVars>>

\* lines 1085-1093: the temporary increase of the max size
SwapMaxSize(s) ==
    /\ pc[s] = "maxsize"
    /\ LET desiredCapacity == asgDesiredCapacity[s]
           maxSize == asgMaxSize[s]
       IN  IF desiredCapacity = maxSize
           THEN /\ group' = setAutoScalingMaxSize(group, maxSize + 1)
                /\ calls' = Append(calls, Call(s, "SetMaxSize", maxSize + 1, TRUE))
                /\ deferred' = [deferred EXCEPT ![s] =
                       PushDefer(@, [op |-> "setAutoScalingMaxSize", arg |-> maxSize])]
           ELSE UNCHANGED <<group, calls, deferred>>
    /\ pc' = [pc EXCEPT ![s] = "attach"]
    /\ UNCHANGED <<catalog, spotState, odInstanceID, asgDesiredCapacity, asgMaxSize,
                   odInstance, checked, result, replaced, launchVars, restVars>>

\* a return that leaves the deferred calls out
ReturnNoDefer(s) == "done"

\* where a return statement goes: to the deferred calls, if any
Return(s) == IF deferred[s] = <<>> THEN "done" ELSE "deferred"

\* lines 1095-1104: attach the spot instance; on failure terminate it
SwapAttach(s) ==
    /\ pc[s] = "attach"
    /\ \/ /\ attachAllowed(group, TRUE)
          /\ group' = attachSpotInstance(group, SpotId(s), TRUE)
          /\ calls' = Append(calls, Call(s, "AttachInstances", SpotId(s), TRUE))
          /\ pc' = [pc EXCEPT ![s] = "terminate"]
          /\ UNCHANGED <<result, replaced>>
       \/ /\ calls' = Append(calls, Call(s, "AttachInstances", SpotId(s), FALSE))
                         \o terminate(s)
          /\ pc' = [pc EXCEPT ![s] = Return(s)]
          /\ Finish(s, "attach-failed", Nil)
          /\ UNCHANGED group
    /\ UNCHANGED <<catalog, spotState, odInstanceID, asgDesiredCapacity, asgMaxSize,
                   deferred, odInstance, checked, launchVars, restVars>>

\* a failed terminate that rolls the swap back by terminating the spot instance
SwapTerminateRollback(s) ==
    /\ pc[s] = "terminate"
    /\ \/ /\ terminateAllowed(group, odInstanceID[s])
          /\ group' = terminateInstanceInAutoScalingGroup(group, odInstanceID[s],
                           TerminateArgs.decrement, TerminateArgs.unhealthy)
          /\ calls' = Append(calls, Call(s, "TerminateInstanceInAutoScalingGroup",
                                         odInstanceID[s], TRUE))
          /\ Finish(s, "ok", odInstanceID[s])
       \/ /\ calls' = Append(calls, Call(s, "TerminateInstanceInAutoScalingGroup",
                                         odInstanceID[s], FALSE)) \o terminate(s)
          /\ Finish(s, "terminate-failed", Nil)
          /\ UNCHANGED group
    /\ pc' = [pc EXCEPT ![s] = Return(s)]
    /\ UNCHANGED <<catalog, spotState, odInstanceID, asgDesiredCapacity, asgMaxSize,
                   deferred, odInstance, checked, launchVars, restVars>>

\* lines 1106-1115: terminate the on-demand instance through the group
SwapTerminate(s) ==
    /\ pc[s] = "terminate"
    /\ \/ /\ terminateAllowed(group, odInstanceID[s])
          /\ group' = terminateInstanceInAutoScalingGroup(group, odInstanceID[s],
                           TerminateArgs.decrement, TerminateArgs.unhealthy)
          /\ calls' = Append(calls, Call(s, "TerminateInstanceInAutoScalingGroup",
                                         odInstanceID[s], TRUE))
          /\ Finish(s, "ok", odInstanceID[s])
       \/ /\ calls' = Append(calls, Call(s, "TerminateInstanceInAutoScalingGroup",
                                         odInstanceID[s], FALSE))
          /\ Finish(s, "terminate-failed", Nil)
          /\ UNCHANGED group
    /\ pc' = [pc EXCEPT ![s] = Return(s)]
    /\ UNCHANGED <<catalog, spotState, odInstanceID, asgDesiredCapacity, asgMaxSize,
                   deferred, odInstance, checked, launchVars, restVars>>

\* the deferred calls run one by one; the call returns after the last one
SwapDeferred(s) ==
    /\ pc[s] = "deferred"
    /\ LET d == Head(deferred[s])
       IN  IF d.op = "resumeProcesses"
           THEN /\ group' = resumeProcesses(group)
                /\ calls' = Append(calls, Call(s, "ResumeProcesses", Nil, TRUE))
           ELSE /\ group' = setAutoScalingMaxSize(group, d.arg)
                /\ calls' = Append(calls, Call(s, "SetMaxSize", d.arg, TRUE))
    /\ deferred' = [deferred EXCEPT ![s] = Tail(@)]
    /\ pc' = [pc EXCEPT ![s] = IF Tail(deferred[s]) = <<>> THEN "done" ELSE "deferred"]
    /\ UNCHANGED <<catalog, spotState, odInstanceID, asgDesiredCapacity, asgMaxSize,
                   odInstance, checked, result, replaced, launchVars, restVars>>

SwapStep(s) ==
    \/ SwapScan(s)
    \/ SwapGet(s)
    \/ SwapCheck(s)
    \/ SwapSuspend(s)
    \/ SwapMaxSize(s)
    \/ SwapAttach(s)
    \/ SwapTerminate(s)
    \/ SwapDeferred(s)

\* the swaps of the group, run one after the other
Next ==
    \/ \E s \in Swaps : SwapCallInTurn(s)
    \/ \E s \in Swaps : SwapStep(s)

Spec == Init /\ [][Next]_vars

(* ------------------------- launchSpotReplacement ----------------------- *)

\* instance types are numbered; a ranked candidate list names each type once
TypeNames == 1..MaxTypes

RECURSIVE RankedLists(_)
RankedLists(n) ==
    IF n = 0 THEN {<<>>}
    ELSE LET shorter == RankedLists(n - 1)
         IN  shorter \cup {Append(l, t) : l \in {x \in shorter : Len(x) = n - 1},
                                          t \in TypeNames}

Distinct(l) == \A a, b \in 1..Len(l) : l[a] = l[b] => a = b

\* what one iteration of the loop can run into
LaunchOutcomes == {"input-error", "capacity", "other-error", "ok"}

\* the id RunInstances gives to the instance it started
StartedId(type) == 200 + type

InitSwapIdle ==
    /\ group = [suspended |-> FALSE, desired |-> Cardinality(ODIds),
                maxSize |-> Cardinality(ODIds), members |-> ODIds,
                scaleInProtected |-> {}]
    /\ catalog = [id \in ODIds |-> NilInstance]
    /\ calls = <<>>
    /\ pc = [s \in Swaps |-> "idle"]
    /\ spotState = [s \in Swaps |-> "running"]
    /\ odInstanceID = [s \in Swaps |-> Nil]
    /\ asgDesiredCapacity = [s \in Swaps |-> 0]
    /\ asgMaxSize = [s \in Swaps |-> 0]
    /\ deferred = [s \in Swaps |-> <<>>]
    /\ odInstance = [s \in Swaps |-> NilInstance]
    /\ checked = [s \in Swaps |-> NotChecked]
    /\ result = [s \in Swaps |-> "none"]
    /\ replaced = [s \in Swaps |-> Nil]

\* the ranked list is what getCompatibleSpotInstanceTypesListSortedAscendingByPrice
\* returned; it returns an error instead of an empty list
InitLaunch ==
    /\ InitSwapIdle
    /\ InitRestIdle
    /\ lpc = "start"
    /\ instanceTypes \in {l \in RankedLists(MaxTypes) : Distinct(l)}
    /\ lIdx = 0
    /\ attempts = <<>>
    /\ lResult = [id |-> Nil, err |-> "none"]

\* lines 526-534: no compatible type, no launch
LaunchList ==
    /\ lpc = "start"
    /\ IF instanceTypes = <<>>
       THEN /\ lpc' = "done"
            /\ lResult' = [id |-> Nil, err |-> "no-compatible-type"]
            /\ UNCHANGED lIdx
       ELSE /\ lpc' = "loop"
            /\ lIdx' = 1
            /\ UNCHANGED lResult
    /\ UNCHANGED <<instanceTypes, attempts, swapVars, restVars>>

\* a capacity error retried on the same type
NextTypeRetry(idx, outcome) == IF outcome = "capacity" THEN idx ELSE idx + 1

\* the loop position after an iteration that did not launch an instance
NextType(idx, outcome) == idx + 1

\* lines 537-572: one iteration of the loop over the ranked types
LaunchAttempt ==
    /\ lpc = "loop"
    /\ lIdx <= Len(instanceTypes)
    /\ \E outcome \in LaunchOutcomes :
          LET type == instanceTypes[lIdx]
          IN  /\ attempts' = Append(attempts, [type |-> type, outcome |-> outcome])
              /\ IF outcome = "ok"
                 THEN /\ lResult' = [id |-> StartedId(type), err |-> "none"]
                      /\ lpc' = "done"
                      /\ UNCHANGED lIdx
                 ELSE /\ lIdx' = NextType(lIdx, outcome)
                      /\ UNCHANGED <<lpc, lResult>>
    /\ UNCHANGED <<instanceTypes, swapVars, restVars>>

\* lines 574-575: the list is exhausted
LaunchExhausted ==
    /\ lpc = "loop"
    /\ lIdx > Len(instanceTypes)
    /\ lpc' = "done"
    /\ lResult' = [id |-> Nil, err |-> "exhausted"]
    /\ UNCHANGED <<instanceTypes, lIdx, attempts, swapVars, restVars>>

NextLaunch == LaunchList \/ LaunchAttempt \/ LaunchExhausted

SpecLaunch == InitLaunch /\ [][NextLaunch]_vars

(* ---------------------------- instanceManager -------------------------- *)

OpThreads == 1..NumOps

\* the records the threads add to the registry
RegistryRecords == {r \in InstanceRecords : r.asgTag = GroupName}

\* make(instanceMap)
EmptyCatalog == [id \in ODIds |-> NilInstance]

Present(cat) == {id \in ODIds : cat[id] # NilInstance}

RegistryOps ==
    [kind : {"add"}, id : ODIds, rec : RegistryRecords]
        \cup [kind : {"get"}, id : ODIds, rec : {NilInstance}]
        \cup [kind : {"addNil", "make", "count"}, id : {Nil}, rec : {NilInstance}]

Writes == {o \in RegistryOps : o.kind \in {"add", "make"}}

Reads == {o \in RegistryOps : o.kind \in {"get", "count"}}

NoOp == [kind |-> "none", id |-> Nil, rec |-> NilInstance]

NoRet == [done |-> FALSE, inst |-> NilInstance, n |-> 0, at |-> 0]

\* sync.RWMutex: a reader gets in unless a writer waits for or holds the lock,
\* a writer gets in when the readers have left
CanRLock(m) == m.waiting = {}

CanLock(m, t) == t \in m.waiting /\ m.readers = 0

RUnlock(m) == [m EXCEPT !.readers = @ - 1]

\* a traversal that takes no read lock
IterRLockNone(m) == m

\* line 104: the traversal takes the read lock
IterRLock(m) == [m EXCEPT !.readers = @ + 1]

\* an add that keeps the record the id already has
registryAddKeep(cat, id, rec) ==
    IF cat[id] = NilInstance THEN [cat EXCEPT ![id] = rec] ELSE cat

\* line 81
registryAdd(cat, id, rec) == [cat EXCEPT ![id] = rec]

\* line 87
registryGet(cat, id) == cat[id]

\* line 94
registryCount(cat) == Cardinality(Present(cat))

\* the threads are alike: they make their calls in the order of their numbers
Idle(t) == oppc[t] = "idle" /\ \A u \in OpThreads : u < t => oppc[u] # "idle"

registryOther == <<group, calls, pc, spotState, odInstanceID, asgDesiredCapacity,
                   asgMaxSize, deferred, odInstance, checked, result, replaced,
                   launchVars, callVars, connVars>>

InitRegistry ==
    /\ InitSwapIdle
    /\ InitLaunchIdle
    /\ InitCallIdle
    /\ InitConnIdle
    /\ rw = [readers |-> 0, waiting |-> {}]
    /\ itpc = "idle"
    /\ toSend = {}
    /\ snapshot = EmptyCatalog
    /\ delivered = <<>>
    /\ cpc = "idle"
    /\ nested \in BOOLEAN
    /\ oppc = [t \in OpThreads |-> "idle"]
    /\ opReq = [t \in OpThreads |-> NoOp]
    /\ opRet = [t \in OpThreads |-> NoRet]
    /\ history = <<>>

\* lines 74-77: add(nil) returns at once
OpAddNil(t) ==
    /\ Idle(t)
    /\ opReq' = [opReq EXCEPT ![t] = [kind |-> "addNil", id |-> Nil, rec |-> NilInstance]]
    /\ oppc' = [oppc EXCEPT ![t] = "done"]
    /\ history' = Append(history, opReq'[t])
    /\ UNCHANGED <<catalog, rw, itpc, toSend, snapshot, delivered, cpc, nested, opRet,
                   registryOther>>

\* lines 69 and 79: add and make call Lock and wait for the readers to leave
OpLock(t) ==
    /\ Idle(t)
    /\ \E o \in Writes : opReq' = [opReq EXCEPT ![t] = o]
    /\ rw' = [rw EXCEPT !.waiting = @ \cup {t}]
    /\ oppc' = [oppc EXCEPT ![t] = "lock"]
    /\ UNCHANGED <<catalog, itpc, toSend, snapshot, delivered, cpc, nested, opRet,
                   history, registryOther>>

\* lines 70-71 and 80-81: the write under the lock, and the unlock
OpWrite(t) ==
    /\ oppc[t] = "lock"
    /\ CanLock(rw, t)
    /\ catalog' = IF opReq[t].kind = "make"
                  THEN EmptyCatalog
                  ELSE registryAdd(catalog, opReq[t].id, opReq[t].rec)
    /\ rw' = [rw EXCEPT !.waiting = @ \ {t}]
    /\ history' = Append(history, opReq[t])
    /\ oppc' = [oppc EXCEPT ![t] = "done"]
    /\ UNCHANGED <<itpc, toSend, snapshot, delivered, cpc, nested, opReq, opRet,
                   registryOther>>

\* lines 84-95: get and count read under the read lock
OpRead(t) ==
    /\ Idle(t)
    /\ CanRLock(rw)
    /\ \E o \in Reads :
          /\ opReq' = [opReq EXCEPT ![t] = o]
          /\ opRet' = [opRet EXCEPT ![t] =
                 [done |-> TRUE,
                  inst |-> IF o.kind = "get" THEN registryGet(catalog, o.id)
                           ELSE NilInstance,
                  n |-> IF o.kind = "count" THEN registryCount(catalog) ELSE 0,
                  at |-> Len(history)]]
    /\ oppc' = [oppc EXCEPT ![t] = "done"]
    /\ UNCHANGED <<catalog, rw, itpc, toSend, snapshot, delivered, cpc, nested,
                   history, registryOther>>

\* lines 101-103 and 112: instances() starts the goroutine and returns the channel
Instances ==
    /\ itpc = "idle"
    /\ itpc' = "start"
    /\ cpc' = "recv"
    /\ UNCHANGED <<catalog, rw, toSend, snapshot, delivered, nested, oppc, opReq,
                   opRet, history, registryOther>>

\* lines 104 and 107: the goroutine takes the read lock and starts the range
IterStart ==
    /\ itpc = "start"
    /\ CanRLock(rw)
    /\ rw' = IterRLock(rw)
    /\ toSend' = Present(catalog)
    /\ snapshot' = catalog
    /\ itpc' = "range"
    /\ UNCHANGED <<catalog, delivered, cpc, nested, oppc, opReq, opRet, history,
                   registryOther>>

\* line 108: a send on the unbuffered channel meets a receive of the consumer
Deliver ==
    /\ itpc = "range"
    /\ cpc = "recv"
    /\ \E id \in toSend :
          /\ delivered' = Append(delivered, [id |-> id, rec |-> catalog[id]])
          /\ toSend' = toSend \ {id}
    /\ cpc' = IF nested THEN "get" ELSE "recv"
    /\ UNCHANGED <<catalog, rw, itpc, snapshot, nested, oppc, opReq, opRet, history,
                   registryOther>>

\* line 106: the range is over, the deferred close runs
IterClose ==
    /\ itpc = "range"
    /\ toSend = {}
    /\ itpc' = "closed"
    /\ UNCHANGED <<catalog, rw, toSend, snapshot, delivered, cpc, nested, oppc, opReq,
                   opRet, history, registryOther>>

\* line 105: the deferred RUnlock runs after the close
IterRUnlock ==
    /\ itpc = "closed"
    /\ rw' = RUnlock(rw)
    /\ itpc' = "done"
    /\ UNCHANGED <<catalog, toSend, snapshot, delivered, cpc, nested, oppc, opReq,
                   opRet, history, registryOther>>

\* the consumer calls get() for the record it received (lines 84-88)
ConsumerGet ==
    /\ cpc = "get"
    /\ CanRLock(rw)
    /\ cpc' = "recv"
    /\ UNCHANGED <<catalog, rw, itpc, toSend, snapshot, delivered, nested, oppc, opReq,
                   opRet, history, registryOther>>

\* the consumer finds the channel closed
ConsumerDone ==
    /\ cpc = "recv"
    /\ itpc \in {"closed", "done"}
    /\ cpc' = "done"
    /\ UNCHANGED <<catalog, rw, itpc, toSend, snapshot, delivered, nested, oppc, opReq,
                   opRet, history, registryOther>>

\* the consumer stops receiving before the channel is closed
ConsumerDrop ==
    /\ cpc = "recv"
    /\ itpc \notin {"closed", "done"}
    /\ cpc' = "dropped"
    /\ UNCHANGED <<catalog, rw, itpc, toSend, snapshot, delivered, nested, oppc, opReq,
                   opRet, history, registryOther>>

NextRegistry ==
    \/ \E t \in OpThreads : OpAddNil(t)
    \/ \E t \in OpThreads : OpLock(t)
    \/ \E t \in OpThreads : OpWrite(t)
    \/ \E t \in OpThreads : OpRead(t)
    \/ Instances
    \/ IterStart
    \/ Deliver
    \/ IterClose
    \/ IterRUnlock
    \/ ConsumerGet
    \/ ConsumerDone
    \/ ConsumerDrop

SpecRegistry == InitRegistry /\ [][NextRegistry]_vars

\* the swaps of the group, run by concurrent callers
NextConcurrent ==
    \/ \E s \in Swaps : SwapCall(s)
    \/ \E s \in Swaps : SwapStep(s)

SpecConcurrent == Init /\ [][NextConcurrent]_vars

(* ------------------- compatible spot instance types -------------------- *)

\* bytes of the names and patterns: '*', '?', 'a', 'b'
Star == 42

Quest == 63

LetterA == 97

LetterB == 98

\* sort.Slice sorts a slice of up to 12 elements by insertion
InsertionSortMax == 12

\* filepath.Match for patterns of letters, '*' and '?'
RECURSIVE Match(_, _)
Match(pattern, name) ==
    IF pattern = <<>> THEN name = <<>>
    ELSE IF Head(pattern) = Star
         THEN \E k \in 0..Len(name) :
                  Match(Tail(pattern), SubSeq(name, k + 1, Len(name)))
         ELSE /\ name # <<>>
              /\ Head(pattern) = Quest \/ Head(pattern) = Head(name)
              /\ Match(Tail(pattern), Tail(name))

\* the order of Go strings
RECURSIVE StringLess(_, _)
StringLess(a, b) ==
    IF b = <<>> THEN FALSE
    ELSE IF a = <<>> THEN TRUE
    ELSE IF Head(a) # Head(b) THEN Head(a) < Head(b)
    ELSE StringLess(Tail(a), Tail(b))

\* sort.Strings of the keys of a map
RECURSIVE sortStrings(_)
sortStrings(keys) ==
    IF keys = {} THEN <<>>
    ELSE LET k == CHOOSE x \in keys : \A y \in keys \ {x} : StringLess(x, y)
         IN <<k>> \o sortStrings(keys \ {k})

\* strings.Contains(cpuName, word) for the words the code looks for
Contains(cpuName, word) ==
    word \in (CASE cpuName = "Intel Xeon Family" -> {"Intel"}
                [] cpuName = "AMD EPYC 7571" -> {"AMD"}
                [] cpuName = "Variable" -> {"Variable"}
                [] cpuName = "AWS Graviton Processor" -> {"AWS"}
                [] OTHER -> {})

min(x, y) == IF x < y THEN x ELSE y

max(x, y) == IF x > y THEN x ELSE y

\* pricing.spot[az]: a Go map gives 0 for a key it does not have
spotOf(candidate, az) ==
    IF az \in DOMAIN candidate.spot THEN candidate.spot[az] ELSE 0

calculatePrice(i, spotCandidate) ==
    spotOf(spotCandidate, i.AvailabilityZone)
        + (IF i.EbsOptimized THEN spotCandidate.ebsSurcharge ELSE 0)

isPriceCompatible(i, spotPrice) ==
    IF spotPrice = 0 THEN FALSE
    ELSE spotPrice <= i.price

isIntel(cpuName) == Contains(cpuName, "Intel") \/ Contains(cpuName, "Variable")

isAMD(cpuName) == Contains(cpuName, "AMD")

isARM(cpuName) == Contains(cpuName, "AWS")

isIntelCompatible(cpuName) == isIntel(cpuName) \/ isAMD(cpuName)

isSameArch(i, other) ==
    \/ isIntelCompatible(i.typeInfo.PhysicalProcessor)
           /\ isIntelCompatible(other.PhysicalProcessor)
    \/ isARM(i.typeInfo.PhysicalProcessor) /\ isARM(other.PhysicalProcessor)

\* a class check that does not look at the architecture
isClassCompatibleAnyArch(i, spotCandidate) ==
    /\ spotCandidate.vCPU >= i.typeInfo.vCPU
    /\ spotCandidate.memory >= i.typeInfo.memory
    /\ spotCandidate.GPU >= i.typeInfo.GPU

isClassCompatible(i, spotCandidate) ==
    /\ isSameArch(i, spotCandidate)
    /\ spotCandidate.vCPU >= i.typeInfo.vCPU
    /\ spotCandidate.memory >= i.typeInfo.memory
    /\ spotCandidate.GPU >= i.typeInfo.GPU

isEBSCompatible(i, spotCandidate) ==
    ~(spotCandidate.EBSThroughput < i.typeInfo.EBSThroughput)

isStorageCompatible(i, spotCandidate, attachedVolumes) ==
    \/ attachedVolumes = 0
    \/ /\ spotCandidate.instanceStoreDeviceCount >= attachedVolumes
       /\ spotCandidate.instanceStoreDeviceSize >= i.typeInfo.instanceStoreDeviceSize
       /\ \/ spotCandidate.instanceStoreIsSSD
          \/ spotCandidate.instanceStoreIsSSD = i.typeInfo.instanceStoreIsSSD

isVirtualizationCompatible(i, spotVirtualizationTypes) ==
    LET types == IF Len(spotVirtualizationTypes) = 0 THEN <<"HVM">>
                 ELSE spotVirtualizationTypes
    IN \E k \in 1..Len(types) :
          \/ types[k] = "PV" /\ i.VirtualizationType = "paravirtual"
          \/ types[k] = "HVM" /\ i.VirtualizationType = "hvm"

isAllowed(instanceType, allowedList, disallowedList) ==
    IF Len(allowedList) > 0
    THEN \E k \in 1..Len(allowedList) : Match(allowedList[k], instanceType)
    ELSE IF Len(disallowedList) > 0
         THEN ~\E k \in 1..Len(disallowedList) : Match(disallowedList[k], instanceType)
         ELSE TRUE

\* a comparison that puts the dearer type first
LessDearer(x, y) == x.price > y.price

\* line 511
Less(x, y) == x.price < y.price

\* the orders sort.Slice can leave the elements of list with the indexes S in:
\* every order the comparison allows, or the stable one
RECURSIVE SortOrders(_, _, _)
SortOrders(list, S, stable) ==
    IF S = {} THEN {<<>>}
    ELSE LET least == {k \in S : \A j \in S : ~Less(list[j], list[k])}
             first == IF stable
                      THEN {CHOOSE k \in least : \A j \in least : k <= j}
                      ELSE least
         IN UNION {{<<list[k]>> \o r : r \in SortOrders(list, S \ {k}, stable)} :
                       k \in first}

sortSlice(list) == SortOrders(list, DOMAIN list, Len(list) <= InsertionSortMax)

\* what the function can return for the input in
getCompatibleSpotInstanceTypesListSortedAscendingByPrice(in) ==
    LET i == in.i
        usedMappings == max(i.lcMappings, i.ltMappings)
        attachedVolumesNumber == min(usedMappings, i.typeInfo.instanceStoreDeviceCount)
        keys == sortStrings(DOMAIN in.catalog)
        Acceptable(k) ==
            LET candidate == in.catalog[k]
                candidatePrice == calculatePrice(i, candidate)
            IN /\ isAllowed(candidate.instanceType, in.allowedList, in.disallowedList)
               /\ isPriceCompatible(i, candidatePrice)
               /\ isEBSCompatible(i, candidate)
               /\ isClassCompatible(i, candidate)
               /\ isStorageCompatible(i, candidate, attachedVolumesNumber)
               /\ isVirtualizationCompatible(i, candidate.virtualizationTypes)
        accepted == SelectSeq(keys, Acceptable)
        acceptableInstanceTypes ==
            [k \in 1..Len(accepted) |->
                [instanceTI |-> in.catalog[accepted[k]],
                 price |-> calculatePrice(i, in.catalog[accepted[k]])]]
    IN IF acceptableInstanceTypes # <<>>
       THEN {[types |-> [k \in 1..Len(sorted) |-> sorted[k].instanceTI], err |-> FALSE] :
                sorted \in sortSlice(acceptableInstanceTypes)}
       ELSE {[types |-> <<>>, err |-> TRUE]}

\* the type of the instance to replace
BaseTypeInfo ==
    [vCPU |-> 2, memory |-> 2, GPU |-> 1, PhysicalProcessor |-> "Intel Xeon Family",
     EBSThroughput |-> 2, instanceStoreDeviceCount |-> 1, instanceStoreDeviceSize |-> 2,
     instanceStoreIsSSD |-> TRUE]

\* the instance to replace, with the ephemeral volumes its group's launch
\* configuration and launch template map (lines 471-472)
BaseInstance ==
    [price |-> 2, EbsOptimized |-> FALSE, AvailabilityZone |-> "az1",
     VirtualizationType |-> "hvm", typeInfo |-> BaseTypeInfo,
     lcMappings |-> 1, ltMappings |-> 0]

SourceInstances ==
    {BaseInstance,
     [BaseInstance EXCEPT !.EbsOptimized = TRUE],
     [BaseInstance EXCEPT !.EbsOptimized = TRUE, !.price = 3],
     [BaseInstance EXCEPT !.price = 1],
     [BaseInstance EXCEPT !.VirtualizationType = "paravirtual"],
     [BaseInstance EXCEPT !.typeInfo.PhysicalProcessor = "AMD EPYC 7571"],
     [BaseInstance EXCEPT !.typeInfo.PhysicalProcessor = "AWS Graviton Processor"],
     [BaseInstance EXCEPT !.typeInfo.PhysicalProcessor = "Other"],
     [BaseInstance EXCEPT !.typeInfo.instanceStoreIsSSD = FALSE],
     [BaseInstance EXCEPT !.lcMappings = 0],
     [BaseInstance EXCEPT !.lcMappings = 0, !.ltMappings = 2],
     [BaseInstance EXCEPT !.lcMappings = 2, !.typeInfo.instanceStoreDeviceCount = 2]}

\* a type that can replace the base instance
BaseInfo ==
    [instanceType |-> <<>>, vCPU |-> 2, memory |-> 2, GPU |-> 1,
     PhysicalProcessor |-> "Intel Xeon Family", EBSThroughput |-> 2,
     spot |-> [az \in {"az1"} |-> 1], ebsSurcharge |-> 1,
     instanceStoreDeviceCount |-> 1, instanceStoreDeviceSize |-> 2,
     instanceStoreIsSSD |-> TRUE, virtualizationTypes |-> <<"HVM">>]

TypeInfos ==
    {BaseInfo,
     [BaseInfo EXCEPT !.vCPU = 1],
     [BaseInfo EXCEPT !.vCPU = 3],
     [BaseInfo EXCEPT !.memory = 1],
     [BaseInfo EXCEPT !.GPU = 0],
     [BaseInfo EXCEPT !.PhysicalProcessor = "AMD EPYC 7571"],
     [BaseInfo EXCEPT !.PhysicalProcessor = "Variable"],
     [BaseInfo EXCEPT !.PhysicalProcessor = "AWS Graviton Processor"],
     [BaseInfo EXCEPT !.PhysicalProcessor = "Other"],
     [BaseInfo EXCEPT !.EBSThroughput = 1],
     [BaseInfo EXCEPT !.spot = [az \in {"az1"} |-> 0]],
     [BaseInfo EXCEPT !.spot = [az \in {"az2"} |-> 1]],
     [BaseInfo EXCEPT !.spot = [az \in {"az1"} |-> 2]],
     [BaseInfo EXCEPT !.spot = [az \in {"az1"} |-> 3]],
     [BaseInfo EXCEPT !.ebsSurcharge = 0],
     [BaseInfo EXCEPT !.ebsSurcharge = 2],
     [BaseInfo EXCEPT !.instanceStoreDeviceCount = 0],
     [BaseInfo EXCEPT !.instanceStoreDeviceCount = 2],
     [BaseInfo EXCEPT !.instanceStoreDeviceSize = 1],
     [BaseInfo EXCEPT !.instanceStoreIsSSD = FALSE],
     [BaseInfo EXCEPT !.virtualizationTypes = <<>>],
     [BaseInfo EXCEPT !.virtualizationTypes = <<"PV">>],
     [BaseInfo EXCEPT !.virtualizationTypes = <<"PV", "HVM">>]}

\* the type names "a", "ab" and "b"
SmallNames == {<<LetterA>>, <<LetterA, LetterB>>, <<LetterB>>}

\* region.instanceTypeInformation: the types of up to MaxCatalog names
CatalogNames == {N \in SUBSET SmallNames : Cardinality(N) <= MaxCatalog}

NoLists == [allowed |-> <<>>, disallowed |-> <<>>]

\* the allowed and disallowed lists: "a*", "?", "*b", "b", "a?"
Lists ==
    {NoLists,
     [allowed |-> <<<<LetterA, Star>>>>, disallowed |-> <<>>],
     [allowed |-> <<>>, disallowed |-> <<<<LetterA, Star>>>>],
     [allowed |-> <<<<Quest>>>>, disallowed |-> <<<<Star, LetterB>>>>],
     [allowed |-> <<>>, disallowed |-> <<<<LetterB>>, <<LetterA, Quest>>>>]}

\* the type names "a", "b", "c", ...
LargeNames == {<<LetterA + k - 1>> : k \in 1..ManyTypes}

\* ManyTypes types that can replace the instance: the k-th costs k, but for the
\* t-th, which costs as much as the next
LargeCatalog(t) ==
    [n \in LargeNames |->
        LET k == n[1] - LetterA + 1
        IN [BaseInfo EXCEPT !.instanceType = n,
                            !.spot = [az \in {"az1"} |-> IF k = t THEN k + 1 ELSE k]]]

\* the instances and lists a small catalog is filtered for
SmallCalls ==
    {[i |-> x, lists |-> NoLists] : x \in SourceInstances}
        \cup {[i |-> BaseInstance, lists |-> l] : l \in Lists}

InitFilter ==
    /\ InitSwapIdle
    /\ InitLaunchIdle
    /\ InitRegistryIdle
    /\ InitConnIdle
    /\ \/ \E c \in SmallCalls, N \in CatalogNames :
             \E f \in [N -> TypeInfos] :
                args = [i |-> c.i, allowedList |-> c.lists.allowed,
                        disallowedList |-> c.lists.disallowed,
                        catalog |-> [n \in N |-> [f[n] EXCEPT !.instanceType = n]]]
       \/ \E t \in 1..(ManyTypes - 1) :
             args = [i |-> [BaseInstance EXCEPT !.price = ManyTypes + 1],
                     allowedList |-> <<>>, disallowedList |-> <<>>,
                     catalog |-> LargeCatalog(t)]
    /\ called = FALSE
    /\ ret = <<>>

FilterCall ==
    /\ ~called
    /\ called' = TRUE
    /\ ret' \in getCompatibleSpotInstanceTypesListSortedAscendingByPrice(args)
    /\ UNCHANGED <<args, swapVars, launchVars, registryVars, connVars>>

NextFilter == FilterCall

SpecFilter == InitFilter /\ [][NextFilter]_vars

(* ----------------------------- getPriceToBid --------------------------- *)

\* prices are whole numbers of a price unit; a bid is in hundredths of that unit
Scale == 100

DefaultBiddingPolicy == "normal"

BiddingPolicies == {"normal", "aggressive"}

\* conf.SpotPriceBufferPercentage
BufferPercentages == {0, 10, 50, 100}

mathMax(x, y) == IF x > y THEN x ELSE y

\* math.Min, line 589
mathMin(x, y) == IF x < y THEN x ELSE y

\* the bid, in hundredths: (1.0 + B/100.0) is (100 + B) hundredths
getPriceToBid(conf, baseOnDemandPrice, currentSpotPrice, spotPremium) ==
    IF conf.BiddingPolicy = DefaultBiddingPolicy
    THEN baseOnDemandPrice * Scale
    ELSE mathMin(baseOnDemandPrice * Scale,
                 (currentSpotPrice - spotPremium) * (Scale + conf.SpotPriceBufferPercentage)
                     + spotPremium * Scale)

InitBid ==
    /\ InitSwapIdle
    /\ InitLaunchIdle
    /\ InitRegistryIdle
    /\ InitConnIdle
    /\ \E p \in BiddingPolicies, b \in BufferPercentages :
          \E base \in 0..MaxPrice, spot \in 0..MaxPrice, premium \in 0..MaxPrice :
             args = [conf |-> [BiddingPolicy |-> p, SpotPriceBufferPercentage |-> b],
                     baseOnDemandPrice |-> base, currentSpotPrice |-> spot,
                     spotPremium |-> premium]
    /\ called = FALSE
    /\ ret = <<>>

BidCall ==
    /\ ~called
    /\ called' = TRUE
    /\ ret' = getPriceToBid(args.conf, args.baseOnDemandPrice, args.currentSpotPrice,
                            args.spotPremium)
    /\ UNCHANGED <<args, swapVars, launchVars, registryVars, connVars>>

NextBid == BidCall

SpecBid == InitBid /\ [][NextBid]_vars

(* ---------------------------- generateTagsList ------------------------- *)

\* the keys the program generates itself
GeneratedKeys ==
    {"launched-by-autospotting", "launched-for-asg", "launched-for-replacing-instance",
     "LaunchTemplateID", "LaunchTemplateVersion", "LaunchConfigurationName"}

\* the keys of the tags of the instance
TagKeys ==
    GeneratedKeys \cup {"aws:autoscaling:groupName", "aws:cloudformation:stack-name",
                        "aws", "Name", "LaunchConfiguationName"}

\* strings.HasPrefix(key, "aws:")
HasPrefixAws(key) == key \in {"aws:autoscaling:groupName", "aws:cloudformation:stack-name"}

NoTemplate == [LaunchTemplateId |-> "nil", Version |-> "nil"]

\* the group's launch template and launch configuration name, "nil" when it has none
Groups ==
    [name : {"asg"},
     LaunchTemplate : {NoTemplate, [LaunchTemplateId |-> "lt-1", Version |-> "1"]},
     LaunchConfigurationName : {"nil", "lc"}]

\* lines 1000-1006
Copied(key) ==
    /\ ~HasPrefixAws(key)
    /\ key # "launched-by-autospotting"
    /\ key # "launched-for-asg"
    /\ key # "launched-for-replacing-instance"
    /\ key # "LaunchTemplateID"
    /\ key # "LaunchTemplateVersion"
    /\ key # "LaunchConfiguationName"

generateTagsList(i) ==
    <<[Key |-> "launched-by-autospotting", Value |-> "true"],
      [Key |-> "launched-for-asg", Value |-> i.asg.name],
      [Key |-> "launched-for-replacing-instance", Value |-> i.InstanceId]>>
    \o (IF i.asg.LaunchTemplate # NoTemplate
        THEN <<[Key |-> "LaunchTemplateID", Value |-> i.asg.LaunchTemplate.LaunchTemplateId],
               [Key |-> "LaunchTemplateVersion", Value |-> i.asg.LaunchTemplate.Version]>>
        ELSE IF i.asg.LaunchConfigurationName # "nil"
             THEN <<[Key |-> "LaunchConfigurationName",
                     Value |-> i.asg.LaunchConfigurationName]>>
             ELSE <<>>)
    \o SelectSeq(i.Tags, LAMBDA tag : Copied(tag.Key))

\* the tags of an instance: up to MaxTags tags of different keys
TagLists ==
    {t \in UNION {[1..n -> [Key : TagKeys, Value : {"source"}]] : n \in 0..MaxTags} :
        \A j, k \in DOMAIN t : t[j].Key = t[k].Key => j = k}

InitTags ==
    /\ InitSwapIdle
    /\ InitLaunchIdle
    /\ InitRegistryIdle
    /\ InitConnIdle
    /\ \E g \in Groups, t \in TagLists :
          args = [InstanceId |-> "i-1", asg |-> g, Tags |-> t]
    /\ called = FALSE
    /\ ret = <<>>

TagsCall ==
    /\ ~called
    /\ called' = TRUE
    /\ ret' = generateTagsList(args)
    /\ UNCHANGED <<args, swapVars, launchVars, registryVars, connVars>>

NextTags == TagsCall

SpecTags == InitTags /\ [][NextTags]_vars

(* ------------------------ block device mappings ------------------------ *)

\* a Go pointer is <<>> when nil and <<v>> when it points to v

unsupportedIO2Regions ==
    <<"us-gov-west-1", "us-gov-east-1", "sa-east-1", "cn-north-1", "cn-northwest-1",
      "eu-south-1", "af-south-1", "eu-west-3", "ap-northeast-3">>

supportedIO2region(region) ==
    ~\E k \in 1..Len(unsupportedIO2Regions) : region = unsupportedIO2Regions[k]

\* a conversion either panics on a nil pointer or returns a *string
Panics == [panic |-> TRUE, VolumeType |-> <<>>]

NoPanic(ptr) == [panic |-> FALSE, VolumeType |-> ptr]

\* lines 709-731: a nil VolumeType is returned as it is
convertLaunchConfigurationEBSVolumeType(ebs, a) ==
    IF ebs.VolumeType = <<>> THEN NoPanic(<<>>)
    ELSE IF ebs.VolumeType[1] = "io1" /\ supportedIO2region(a.region)
    THEN NoPanic(<<"io2">>)
    ELSE IF ebs.VolumeType[1] = "gp2"
    THEN IF ebs.VolumeSize = <<>> THEN Panics
         ELSE IF ebs.VolumeSize[1] <= a.GP2ConversionThreshold
         THEN NoPanic(<<"gp3">>)
         ELSE NoPanic(ebs.VolumeType)
    ELSE NoPanic(ebs.VolumeType)

\* a conversion that leaves gp2 of exactly the threshold size alone
convertLaunchTemplateEBSVolumeTypeBelow(ebs, a) ==
    IF ebs.VolumeType = <<>> THEN Panics
    ELSE IF ebs.VolumeType[1] = "io1" /\ supportedIO2region(a.region)
    THEN NoPanic(<<"io2">>)
    ELSE IF ebs.VolumeType[1] = "gp2"
    THEN IF ebs.VolumeSize = <<>> THEN Panics
         ELSE IF ebs.VolumeSize[1] < a.GP2ConversionThreshold
         THEN NoPanic(<<"gp3">>)
         ELSE NoPanic(ebs.VolumeType)
    ELSE NoPanic(ebs.VolumeType)

\* lines 733-749: line 737 dereferences VolumeType
convertLaunchTemplateEBSVolumeType(ebs, a) ==
    IF ebs.VolumeType = <<>> THEN Panics
    ELSE IF ebs.VolumeType[1] = "io1" /\ supportedIO2region(a.region)
    THEN NoPanic(<<"io2">>)
    ELSE IF ebs.VolumeType[1] = "gp2"
    THEN IF ebs.VolumeSize = <<>> THEN Panics
         ELSE IF ebs.VolumeSize[1] <= a.GP2ConversionThreshold
         THEN NoPanic(<<"gp3">>)
         ELSE NoPanic(ebs.VolumeType)
    ELSE NoPanic(ebs.VolumeType)

\* lines 751-767: line 755 dereferences VolumeType
convertImageEBSVolumeType(ebs, a) ==
    IF ebs.VolumeType = <<>> THEN Panics
    ELSE IF ebs.VolumeType[1] = "io1" /\ supportedIO2region(a.region)
    THEN NoPanic(<<"io2">>)
    ELSE IF ebs.VolumeType[1] = "gp2"
    THEN IF ebs.VolumeSize = <<>> THEN Panics
         ELSE IF ebs.VolumeSize[1] <= a.GP2ConversionThreshold
         THEN NoPanic(<<"gp3">>)
         ELSE NoPanic(ebs.VolumeType)
    ELSE NoPanic(ebs.VolumeType)

\* what a conversion of mappings gives: a panic, nil, or the converted mappings
NilMappings == [panic |-> FALSE, nil |-> TRUE, bds |-> <<>>]

PanicMappings == [panic |-> TRUE, nil |-> TRUE, bds |-> <<>>]

\* lines 595-631: NoDevice is a *bool
convertLaunchConfigurationBlockDeviceMappings(BDMs, a) ==
    LET panics == \E k \in 1..Len(BDMs) :
                      BDMs[k].Ebs # <<>> /\ convertLaunchConfigurationEBSVolumeType(BDMs[k].Ebs[1], a).panic
        ec2BDM(BDM) ==
            [DeviceName |-> BDM.DeviceName,
             Ebs |-> IF BDM.Ebs = <<>> THEN <<>>
                     ELSE <<[VolumeSize |-> BDM.Ebs[1].VolumeSize,
                             VolumeType |-> convertLaunchConfigurationEBSVolumeType(BDM.Ebs[1], a).VolumeType]>>]
        kept == SelectSeq(BDMs, LAMBDA BDM : ~(BDM.NoDevice # <<>> /\ BDM.NoDevice[1]))
        bds == [k \in 1..Len(kept) |-> ec2BDM(kept[k])]
    IN IF panics THEN PanicMappings
       ELSE IF Len(bds) = 0 THEN NilMappings
       ELSE [panic |-> FALSE, nil |-> FALSE, bds |-> bds]

\* lines 633-669: NoDevice is a *string
convertLaunchTemplateBlockDeviceMappings(BDMs, a) ==
    LET panics == \E k \in 1..Len(BDMs) :
                      BDMs[k].Ebs # <<>> /\ convertLaunchTemplateEBSVolumeType(BDMs[k].Ebs[1], a).panic
        ec2BDM(BDM) ==
            [DeviceName |-> BDM.DeviceName,
             Ebs |-> IF BDM.Ebs = <<>> THEN <<>>
                     ELSE <<[VolumeSize |-> BDM.Ebs[1].VolumeSize,
                             VolumeType |-> convertLaunchTemplateEBSVolumeType(BDM.Ebs[1], a).VolumeType]>>]
        kept == SelectSeq(BDMs, LAMBDA BDM : ~(BDM.NoDevice # <<>> /\ BDM.NoDevice[1] = "true"))
        bds == [k \in 1..Len(kept) |-> ec2BDM(kept[k])]
    IN IF panics THEN PanicMappings
       ELSE IF Len(bds) = 0 THEN NilMappings
       ELSE [panic |-> FALSE, nil |-> FALSE, bds |-> bds]

\* lines 671-707: NoDevice is a *string
convertImageBlockDeviceMappings(BDMs, a) ==
    LET panics == \E k \in 1..Len(BDMs) :
                      BDMs[k].Ebs # <<>> /\ convertImageEBSVolumeType(BDMs[k].Ebs[1], a).panic
        ec2BDM(BDM) ==
            [DeviceName |-> BDM.DeviceName,
             Ebs |-> IF BDM.Ebs = <<>> THEN <<>>
                     ELSE <<[VolumeSize |-> BDM.Ebs[1].VolumeSize,
                             VolumeType |-> convertImageEBSVolumeType(BDM.Ebs[1], a).VolumeType]>>]
        kept == SelectSeq(BDMs, LAMBDA BDM : ~(BDM.NoDevice # <<>> /\ BDM.NoDevice[1] = "true"))
        bds == [k \in 1..Len(kept) |-> ec2BDM(kept[k])]
    IN IF panics THEN PanicMappings
       ELSE IF Len(bds) = 0 THEN NilMappings
       ELSE [panic |-> FALSE, nil |-> FALSE, bds |-> bds]

Sources == {"image", "lc", "lt"}

Regions == {"us-east-1", "sa-east-1"}

VolumeTypes == {<<>>, <<"io1">>, <<"gp2">>, <<"standard">>}

VolumeSizes == {<<>>} \cup {<<n>> : n \in 1..3}

EbsDevices == {<<>>} \cup {<<e>> : e \in [VolumeType : VolumeTypes, VolumeSize : VolumeSizes]}

NoDevices(source) ==
    IF source = "lc" THEN {<<>>, <<TRUE>>, <<FALSE>>} ELSE {<<>>, <<"true">>, <<"false">>}

\* the group's region and GP2 conversion threshold
BlockDeviceGroups == [region : Regions, GP2ConversionThreshold : {2}]

InitBlockDevices ==
    /\ InitSwapIdle
    /\ InitLaunchIdle
    /\ InitRegistryIdle
    /\ InitConnIdle
    /\ \E source \in Sources, a \in BlockDeviceGroups, n \in 0..MaxBDMs :
          \E e \in [1..n -> EbsDevices], nd \in [1..n -> NoDevices(source)] :
             args = [source |-> source, asg |-> a,
                     BDMs |-> [k \in 1..n |->
                                  [DeviceName |-> k, Ebs |-> e[k], NoDevice |-> nd[k]]]]
    /\ called = FALSE
    /\ ret = <<>>

BlockDevicesCall ==
    /\ ~called
    /\ called' = TRUE
    /\ ret' = CASE args.source = "lc" ->
                     convertLaunchConfigurationBlockDeviceMappings(args.BDMs, args.asg)
                [] args.source = "lt" ->
                     convertLaunchTemplateBlockDeviceMappings(args.BDMs, args.asg)
                [] args.source = "image" ->
                     convertImageBlockDeviceMappings(args.BDMs, args.asg)
    /\ UNCHANGED <<args, swapVars, launchVars, registryVars, connVars>>

NextBlockDevices == BlockDevicesCall

SpecBlockDevices == InitBlockDevices /\ [][NextBlockDevices]_vars

(* -------------------------- handleInstanceStates ----------------------- *)

Ec2States == {"pending", "running", "shutting-down", "terminated", "stopping", "stopped"}

\* the tag values an instance can have under launched-for-asg: none, the
\* enabled group, a group that is not enabled
TargetTags == {<<>>, <<GroupName>>, <<"off">>}

\* region.findEnabledASGByName: the enabled group of that name, <<>> if none
findEnabledASGByName(region, name) ==
    IF \E g \in region.enabledASGs : g.name = name
    THEN <<CHOOSE g \in region.enabledASGs : g.name = name>>
    ELSE <<>>

\* autoScalingGroup.hasMemberInstance
hasMemberInstance(asg, i) == i.InstanceId \in asg.members

\* lines 1013-1020: the value of the first tag launched-for-asg, <<>> if none
getReplacementTargetASGName(i) ==
    LET at == {k \in 1..Len(i.Tags) : i.Tags[k].Key = "launched-for-asg"}
    IN IF at = {} THEN <<>>
       ELSE <<i.Tags[CHOOSE k \in at : \A j \in at : k <= j].Value>>

\* lines 1040-1055
isUnattachedSpotInstanceLaunchedForAnEnabledASG(i, region) ==
    LET asgName == getReplacementTargetASGName(i)
    IN IF asgName = <<>> THEN FALSE
       ELSE LET asg == findEnabledASGByName(region, asgName[1])
            IN asg # <<>> /\ ~hasMemberInstance(asg[1], i) /\ isSpot(i)

\* lines 443-460: whether to skip the instance, and the error
handleInstanceStates(i, region) ==
    IF i.State # "running"
    THEN [skip |-> TRUE, err |-> "instance not in running state"]
    ELSE IF ~isUnattachedSpotInstanceLaunchedForAnEnabledASG(i, region)
         THEN [skip |-> TRUE, err |-> "nil"]
         ELSE [skip |-> FALSE, err |-> "nil"]

InitStates ==
    /\ InitSwapIdle
    /\ InitLaunchIdle
    /\ InitRegistryIdle
    /\ InitConnIdle
    /\ \E state \in Ec2States, lifecycle \in {"spot", "normal"}, by \in BOOLEAN,
          target \in TargetTags, members \in SUBSET {"i-1", "i-2"} :
          args = [i |-> [InstanceId |-> "i-1", State |-> state, lifecycle |-> lifecycle,
                         Tags |-> (IF by
                                   THEN <<[Key |-> "launched-by-autospotting",
                                           Value |-> "true"]>>
                                   ELSE <<>>)
                                  \o (IF target = <<>> THEN <<>>
                                      ELSE <<[Key |-> "launched-for-asg",
                                              Value |-> target[1]]>>)],
                  region |-> [enabledASGs |-> {[name |-> GroupName, members |-> members]}]]
    /\ called = FALSE
    /\ ret = <<>>

StatesCall ==
    /\ ~called
    /\ called' = TRUE
    /\ ret' = handleInstanceStates(args.i, args.region)
    /\ UNCHANGED <<args, swapVars, launchVars, registryVars, connVars>>

NextStates == StatesCall

SpecStates == InitStates /\ [][NextStates]_vars

(* ---------------------------- isReadyToAttach -------------------------- *)

\* an instance is ready from the end of the grace period on
isReadyToAttachAtGrace(i, asg, now) ==
    i.State = "running" /\ now - i.LaunchTime >= asg.HealthCheckGracePeriod

\* lines 1120-1150; now is time.Now().Unix(), LaunchTime its Unix() seconds
isReadyToAttach(i, asg, now) ==
    LET gracePeriod == asg.HealthCheckGracePeriod
        instanceUpTime == now - i.LaunchTime
    IN IF i.State = "running" /\ instanceUpTime > gracePeriod THEN TRUE
       ELSE IF i.State = "running" /\ instanceUpTime < gracePeriod THEN FALSE
       ELSE IF i.State = "pending" THEN FALSE
       ELSE FALSE

InitReady ==
    /\ InitSwapIdle
    /\ InitLaunchIdle
    /\ InitRegistryIdle
    /\ InitConnIdle
    /\ \E state \in Ec2States, launch \in 0..MaxTime, now \in 0..MaxTime,
          grace \in 0..MaxTime :
          args = [i |-> [State |-> state, LaunchTime |-> launch],
                  asg |-> [HealthCheckGracePeriod |-> grace], now |-> now]
    /\ called = FALSE
    /\ ret = <<>>

ReadyCall ==
    /\ ~called
    /\ called' = TRUE
    /\ ret' = isReadyToAttach(args.i, args.asg, args.now)
    /\ UNCHANGED <<args, swapVars, launchVars, registryVars, connVars>>

NextReady == ReadyCall

SpecReady == InitReady /\ [][NextReady]_vars

(* ------------------------ createRunInstancesInput ---------------------- *)

\* lines 779-785
convertSecurityGroups(i) == [k \in 1..Len(i.SecurityGroups) |-> i.SecurityGroups[k].GroupId]

\* the block device mappings of a request: nil, or the converted mappings
Mappings(converted) == [nil |-> converted.nil, bds |-> converted.bds]

\* what building the request gives: an error, a panic, or the request
Built(retval) == [err |-> FALSE, panic |-> FALSE, retval |-> retval]

BuildError(retval) == [err |-> TRUE, panic |-> FALSE, retval |-> retval]

BuildPanic(retval) == [err |-> FALSE, panic |-> TRUE, retval |-> retval]

\* lines 902-920; resp is the answer of DescribeImages: an error, or the images
processImageBlockDevices(i, resp, rii) ==
    IF resp.err THEN Built(rii)
    ELSE IF Len(resp.Images) = 0 THEN Built(rii)
    ELSE LET converted ==
                 convertImageBlockDeviceMappings(resp.Images[1].BlockDeviceMappings, i.asg)
         IN IF converted.panic THEN BuildPanic(rii)
            ELSE Built([rii EXCEPT !.BlockDeviceMappings = Mappings(converted)])

\* lines 806-817
launchTemplateHasNetworkInterfaces(ltData) ==
    IF Len(ltData.NetworkInterfaces) > 0
    THEN [having |-> TRUE, nis |-> ltData.NetworkInterfaces]
    ELSE [having |-> FALSE, nis |-> <<>>]

\* lines 819-849; lt is the answer of getlaunchTemplate: an error, or the data
processLaunchTemplate(i, lt, retval) ==
    LET referred == [retval EXCEPT !.LaunchTemplate = i.asg.LaunchTemplate]
        ltData == lt.data
    IN IF lt.err THEN BuildError(referred)
       ELSE LET converted ==
                    convertLaunchTemplateBlockDeviceMappings(ltData.BlockDeviceMappings, i.asg)
                mapped == [referred EXCEPT !.BlockDeviceMappings = Mappings(converted)]
                has == launchTemplateHasNetworkInterfaces(ltData)
            IN IF converted.panic THEN BuildPanic(referred)
               ELSE IF has.having
               THEN Built([mapped EXCEPT
                       !.NetworkInterfaces = @ \o
                           [k \in 1..Len(has.nis) |->
                               [AssociatePublicIpAddress |-> has.nis[k].AssociatePublicIpAddress,
                                SubnetId |-> i.SubnetId,
                                DeviceIndex |-> has.nis[k].DeviceIndex,
                                Groups |-> convertSecurityGroups(i)]],
                       !.SubnetId = <<>>,
                       !.SecurityGroupIds = <<>>])
               ELSE Built(mapped)

\* lines 851-900, for the image id, the block devices and the network interface
processLaunchConfiguration(i, retval) ==
    LET lc == i.asg.launchConfiguration[1]
        BDMs == convertLaunchConfigurationBlockDeviceMappings(lc.BlockDeviceMappings, i.asg)
        imaged == [retval EXCEPT !.ImageId = lc.ImageId]
        mapped == IF Len(BDMs.bds) > 0
                  THEN [imaged EXCEPT !.BlockDeviceMappings = Mappings(BDMs)]
                  ELSE imaged
    IN IF BDMs.panic THEN BuildPanic(imaged)
       ELSE IF lc.AssociatePublicIpAddress # <<>> \/ i.SubnetId # <<>>
       THEN Built([mapped EXCEPT
               !.NetworkInterfaces =
                   <<[AssociatePublicIpAddress |-> lc.AssociatePublicIpAddress,
                      SubnetId |-> i.SubnetId,
                      DeviceIndex |-> <<0>>,
                      Groups |-> convertSecurityGroups(i)]>>,
               !.SubnetId = <<>>,
               !.SecurityGroupIds = <<>>])
       ELSE Built(mapped)

\* lines 922-962, for the fields the image, the template and the configuration set
createRunInstancesInput(i, images, ltData) ==
    LET retval == [BlockDeviceMappings |-> [nil |-> TRUE, bds |-> <<>>],
                   NetworkInterfaces |-> <<>>,
                   LaunchTemplate |-> <<>>,
                   ImageId |-> <<>>,
                   SecurityGroupIds |-> convertSecurityGroups(i),
                   SubnetId |-> i.SubnetId]
        image == processImageBlockDevices(i, images, retval)
        template == IF i.asg.LaunchTemplate # <<>>
                    THEN processLaunchTemplate(i, ltData, image.retval)
                    ELSE image
    IN IF image.panic THEN image
       ELSE IF template.err \/ template.panic THEN template
       ELSE IF i.asg.launchConfiguration # <<>>
       THEN processLaunchConfiguration(i, template.retval)
       ELSE template

\* a volume that converts, and one without a volume type
SomeEbs ==
    {<<>>, <<[VolumeType |-> <<"gp2">>, VolumeSize |-> <<2>>]>>,
     <<[VolumeType |-> <<>>, VolumeSize |-> <<2>>]>>}

\* the mappings of a source: none, or one device named after the source
SomeMappings(name) ==
    {<<>>} \cup {<<[DeviceName |-> name, Ebs |-> e, NoDevice |-> <<>>]>> : e \in SomeEbs}

\* what DescribeImages answers
ImageAnswers ==
    {[err |-> TRUE, Images |-> <<>>], [err |-> FALSE, Images |-> <<>>]}
        \cup {[err |-> FALSE, Images |-> <<[BlockDeviceMappings |-> m]>>] :
                  m \in SomeMappings("ami")}

\* what getlaunchTemplate answers
NoTemplateData == [BlockDeviceMappings |-> <<>>, NetworkInterfaces |-> <<>>]

TemplateAnswers ==
    {[err |-> TRUE, data |-> NoTemplateData]} \cup
    {[err |-> FALSE, data |-> d] :
        d \in [BlockDeviceMappings : SomeMappings("lt"),
               NetworkInterfaces : {<<>>, <<[AssociatePublicIpAddress |-> <<TRUE>>,
                                             DeviceIndex |-> <<1>>]>>}]}

\* the group's launch configuration, <<>> if it has none
LaunchConfigurations ==
    {<<>>} \cup {<<lc>> : lc \in [ImageId : {<<"ami-lc">>},
                                  BlockDeviceMappings : SomeMappings("lc"),
                                  AssociatePublicIpAddress : {<<>>, <<FALSE>>}]}

InitRequest ==
    /\ InitSwapIdle
    /\ InitLaunchIdle
    /\ InitRegistryIdle
    /\ InitConnIdle
    /\ \E images \in ImageAnswers, ltData \in TemplateAnswers, lc \in LaunchConfigurations :
          \E lt \in {<<>>, <<[LaunchTemplateId |-> "lt-1", Version |-> "1"]>>},
             subnet \in {<<>>, <<"subnet-1">>} :
             args = [i |-> [SubnetId |-> subnet,
                            SecurityGroups |-> <<[GroupId |-> "sg-1"]>>,
                            asg |-> [region |-> "us-east-1", GP2ConversionThreshold |-> 2,
                                     LaunchTemplate |-> lt, launchConfiguration |-> lc]],
                     images |-> images,
                     ltData |-> IF lt = <<>> THEN [err |-> TRUE, data |-> NoTemplateData]
                                ELSE ltData]
    /\ called = FALSE
    /\ ret = <<>>

RequestCall ==
    /\ ~called
    /\ called' = TRUE
    /\ ret' = createRunInstancesInput(args.i, args.images, args.ltData)
    /\ UNCHANGED <<args, swapVars, launchVars, registryVars, connVars>>

NextRequest == RequestCall

SpecRequest == InitRequest /\ [][NextRequest]_vars

(* ------------------------ connections.connect -------------------------- *)
\* core/connections.go

\* the services connect() creates a client of
Services == {"autoscaling", "ec2", "lambda", "cloudformation"}

\* lines 46-49: the order in which the goroutines are started
GoOrder == <<"autoscaling", "ec2", "lambda", "cloudformation">>

\* line 51: the order in which the channels are received from
ReceiveOrder == <<"autoscaling", "ec2", "cloudformation", "lambda">>

NoClient == [service |-> "nil", session |-> <<>>]

\* a client made by autoscaling.New, ec2.New, lambda.New or cloudformation.New
New(service, session) == [service |-> service, session |-> session]

\* lines 19-26: the struct before any connect()
NoConnections ==
    [session |-> <<>>, autoScaling |-> NoClient, ec2 |-> NoClient,
     cloudFormation |-> NoClient, lambda |-> NoClient, region |-> ""]

\* a session made before this call of connect()
EarlierSessions == {[Region |-> r, created |-> "before"] : r \in Regions}

\* the struct after an earlier setSession() or an earlier connect()
EarlierConnections ==
    {[NoConnections EXCEPT !.session = <<s>>] : s \in EarlierSessions}
        \cup {[session |-> <<s>>, autoScaling |-> New("autoscaling", <<s>>),
               ec2 |-> New("ec2", <<s>>), cloudFormation |-> New("cloudformation", <<s>>),
               lambda |-> New("lambda", <<s>>), region |-> s.Region] :
                  s \in EarlierSessions}

\* lines 28-31
setSession(c, region) ==
    [c EXCEPT !.session = <<[Region |-> region, created |-> "connect"]>>]

needsSessionAlways(c) == TRUE

\* line 37
needsSession(c) == c.session = <<>>

InitConnect ==
    /\ InitSwapIdle
    /\ InitLaunchIdle
    /\ InitRegistryIdle
    /\ InitCallIdle
    /\ conn \in {NoConnections} \cup EarlierConnections
    /\ \E region \in Regions : connArgs = [region |-> region, session |-> conn.session]
    /\ mpc = "session"
    /\ gpc = [g \in Services |-> "unborn"]
    /\ made = [g \in Services |-> NoClient]
    /\ recvd = <<>>

connOther == <<swapVars, launchVars, registryVars, callVars>>

\* lines 37-39: a session is made if there is none; session.Must panics when
\* session.NewSession fails
ConnectSession ==
    /\ mpc = "session"
    /\ IF needsSession(conn)
       THEN \E ok \in BOOLEAN :
               IF ok THEN conn' = setSession(conn, connArgs.region) /\ mpc' = "go"
               ELSE mpc' = "panic" /\ UNCHANGED conn
       ELSE mpc' = "go" /\ UNCHANGED conn
    /\ UNCHANGED <<connArgs, gpc, made, recvd, connOther>>

\* lines 46-49: the k-th go statement starts its goroutine
ConnectGo(k) ==
    /\ mpc = "go"
    /\ gpc[GoOrder[k]] = "unborn"
    /\ \A j \in 1..(k - 1) : gpc[GoOrder[j]] # "unborn"
    /\ gpc' = [gpc EXCEPT ![GoOrder[k]] = "new"]
    /\ mpc' = IF k = Len(GoOrder) THEN "recv" ELSE "go"
    /\ UNCHANGED <<conn, connArgs, made, recvd, connOther>>

\* lines 46-49: goroutine g evaluates the operand of its send, a new client
\* of the session
GoNew(g) ==
    /\ gpc[g] = "new"
    /\ made' = [made EXCEPT ![g] = New(g, conn.session)]
    /\ gpc' = [gpc EXCEPT ![g] = "send"]
    /\ UNCHANGED <<conn, connArgs, mpc, recvd, connOther>>

\* line 51: the receives are evaluated from left to right; each one meets the
\* send of its goroutine on the unbuffered channel, and the goroutine ends
ConnectReceive ==
    /\ mpc = "recv"
    /\ Len(recvd) < Len(ReceiveOrder)
    /\ LET g == ReceiveOrder[Len(recvd) + 1]
       IN /\ gpc[g] = "send"
          /\ recvd' = Append(recvd, made[g])
          /\ gpc' = [gpc EXCEPT ![g] = "done"]
    /\ UNCHANGED <<conn, connArgs, mpc, made, connOther>>

\* line 51: the assignment, after the four receives
ConnectAssign ==
    /\ mpc = "recv"
    /\ Len(recvd) = Len(ReceiveOrder)
    /\ conn' = [conn EXCEPT !.autoScaling = recvd[1], !.ec2 = recvd[2],
                            !.cloudFormation = recvd[3], !.lambda = recvd[4],
                            !.region = connArgs.region]
    /\ mpc' = "returned"
    /\ UNCHANGED <<connArgs, gpc, made, recvd, connOther>>

NextConnect ==
    \/ ConnectSession
    \/ \E k \in 1..Len(GoOrder) : ConnectGo(k)
    \/ \E g \in Services : GoNew(g)
    \/ ConnectReceive
    \/ ConnectAssign

SpecConnect == InitConnect /\ [][NextConnect]_vars

(* ============================== properties ============================= *)

GroupOps == {"SuspendProcesses", "SetMaxSize", "AttachInstances",
             "TerminateInstanceInAutoScalingGroup", "ResumeProcesses"}

CallsOf(s) == SelectSeq(calls, LAMBDA c : c.swap = s)

GroupCallsOf(s) == SelectSeq(calls, LAMBDA c : c.swap = s /\ c.op \in GroupOps)

Issued(s, op) == \E k \in 1..Len(calls) : calls[k].swap = s /\ calls[k].op = op

IssuedWith(s, op, ok) ==
    \E k \in 1..Len(calls) : calls[k].swap = s /\ calls[k].op = op /\ calls[k].ok = ok

Returns(s) == pc[s] # "done" /\ pc'[s] = "done"

\* C1: a swap call that suspended the group's processes returns, whatever the
\* attach and the terminate did, with the processes resumed and the group's
\* max size back at the value it had when the call was made.
C1_ReleasedOnReturn ==
    [][\A s \in Swaps :
          Returns(s) /\ Issued(s, "SuspendProcesses")
              => /\ ~group'.suspended
                 /\ group'.maxSize = asgMaxSize[s]]_vars

C1_Witness ==
    \E s \in Swaps :
        /\ pc[s] = "done"
        /\ result[s] = "terminate-failed"
        /\ asgDesiredCapacity[s] = asgMaxSize[s]
        /\ IssuedWith(s, "SetMaxSize", TRUE)
        /\ ~group.suspended
        /\ group.maxSize = asgMaxSize[s]

\* the place of a group-level call in the order of one swap
Rank(c, s) ==
    CASE c.op = "SuspendProcesses" -> 1
      [] c.op = "SetMaxSize" /\ c.arg = asgMaxSize[s] + 1 -> 2
      [] c.op = "AttachInstances" -> 3
      [] c.op = "TerminateInstanceInAutoScalingGroup" -> 4
      [] c.op = "SetMaxSize" /\ c.arg = asgMaxSize[s] -> 5
      [] c.op = "ResumeProcesses" -> 6
      [] OTHER -> 0

HasRank(s, r) ==
    \E k \in 1..Len(GroupCallsOf(s)) : Rank(GroupCallsOf(s)[k], s) = r

\* C2: the group-level calls of one swap come in the order suspend, raise max
\* size, attach, terminate in group, restore max size, resume, each at most
\* once; terminate in group only after an attach that succeeded; restoration
\* and resumption after the attach and the terminate attempts, restoration
\* first, and both are there when the call has returned.
C2_CallOrder ==
    \A s \in Swaps :
        LET g == GroupCallsOf(s)
        IN  /\ \A a, b \in 1..Len(g) : a < b => Rank(g[a], s) < Rank(g[b], s)
            /\ \A a \in 1..Len(g) : Rank(g[a], s) > 0
            /\ Len(g) > 0 => Rank(g[1], s) = 1
            /\ HasRank(s, 4) => IssuedWith(s, "AttachInstances", TRUE)
            /\ HasRank(s, 5) \/ HasRank(s, 6) =>
                   /\ HasRank(s, 3)
                   /\ IssuedWith(s, "AttachInstances", TRUE) => HasRank(s, 4)
            /\ HasRank(s, 5) => HasRank(s, 2)
            /\ HasRank(s, 6) /\ HasRank(s, 2) => HasRank(s, 5)
            /\ pc[s] = "done" /\ HasRank(s, 1) => HasRank(s, 6)

C2_Witness ==
    \E s \in Swaps :
        /\ pc[s] = "done"
        /\ result[s] = "ok"
        /\ Len(GroupCallsOf(s)) = 6

InSection(s) == pc[s] \in {"maxsize", "attach", "terminate", "deferred"}

\* C3: at most one swap call of the group is between its suspend and its
\* resume at any time.
C3_SwapsExcluded ==
    Cardinality({s \in Swaps : InSection(s)}) <= 1

C5_AttachFailed ==
    \A s \in Swaps :
        /\ IssuedWith(s, "AttachInstances", FALSE) =>
               /\ Issued(s, "TerminateInstances")
               /\ ~Issued(s, "TerminateInstanceInAutoScalingGroup")
               /\ result[s] = "attach-failed"
               /\ replaced[s] = Nil
               /\ SpotId(s) \notin group.members
        /\ result[s] = "attach-failed" => IssuedWith(s, "AttachInstances", FALSE)

C5_Witness ==
    \E s \in Swaps :
        /\ pc[s] = "done"
        /\ IssuedWith(s, "AttachInstances", FALSE)
        /\ result[s] = "attach-failed"
        /\ odInstanceID[s] \in group.members

\* C6: when the attach succeeded and the terminate-in-group call failed the
\* swap returns the terminate-failed error and rolls nothing back: no
\* terminate of the spot instance, no detach, the spot instance stays attached.
C6_TerminateFailed ==
    \A s \in Swaps :
        /\ IssuedWith(s, "TerminateInstanceInAutoScalingGroup", FALSE) =>
               /\ IssuedWith(s, "AttachInstances", TRUE)
               /\ result[s] = "terminate-failed"
               /\ replaced[s] = Nil
               /\ ~Issued(s, "TerminateInstances")
               /\ ~Issued(s, "DetachInstances")
               /\ SpotId(s) \in group.members
        /\ result[s] = "terminate-failed" =>
               IssuedWith(s, "TerminateInstanceInAutoScalingGroup", FALSE)

C6_Witness ==
    \E s \in Swaps :
        /\ pc[s] = "done"
        /\ result[s] = "terminate-failed"
        /\ IssuedWith(s, "TerminateInstanceInAutoScalingGroup", FALSE)
        /\ SpotId(s) \in group.members

\* C7: a swap whose target could not be described, or is absent from the
\* registry after the scan, has terminated the spot instance and issued no
\* group-level call.
C7_UndescribedTargetTerminatesSpot ==
    \A s \in Swaps :
        result[s] \in {"not-described", "missing"} =>
            /\ Issued(s, "TerminateInstances")
            /\ GroupCallsOf(s) = <<>>

\* C8: a swap whose target no longer passes shouldBeReplacedWithSpot issued a
\* terminate for the spot instance, returns an error and issues no group-level
\* call.
C8_NotReplaceable ==
    \A s \in Swaps :
        /\ checked[s].done /\ ~checked[s].verdict =>
               /\ pc[s] = "done"
               /\ result[s] = "not-replaceable"
               /\ replaced[s] = Nil
               /\ CallsOf(s) = <<Call(s, "TerminateInstances", SpotId(s), TRUE)>>
               /\ GroupCallsOf(s) = <<>>
        /\ result[s] = "not-replaceable" => checked[s].done /\ ~checked[s].verdict

C8_Witness ==
    \E s \in Swaps :
        /\ result[s] = "not-replaceable"
        /\ checked[s].done
        /\ checked[s].dia = "protected"
        /\ Issued(s, "TerminateInstances")

LaunchCalls == SelectSeq(attempts, LAMBDA a : a.outcome # "input-error")

\* C9: the launch loop goes through the ranked types in order, one iteration
\* and at most one launch call per type, moves on after every failure, stops
\* at the first success and returns that instance's id, and returns an error
\* with no instance when the list is exhausted or empty; it never makes more
\* launch calls than there are candidates nor starts more than one instance.
C9_LaunchLoop ==
    /\ Len(attempts) <= Len(instanceTypes)
    /\ \A k \in 1..Len(attempts) : attempts[k].type = instanceTypes[k]
    /\ \A k \in 1..Len(attempts) : attempts[k].outcome = "ok" => k = Len(attempts)
    /\ \A a, b \in 1..Len(LaunchCalls) : LaunchCalls[a].type = LaunchCalls[b].type => a = b
    /\ lpc = "loop" => lIdx = Len(attempts) + 1
    /\ Len(attempts) > 0 /\ attempts[Len(attempts)].outcome = "ok" =>
           /\ lpc = "done"
           /\ lResult = [id |-> StartedId(attempts[Len(attempts)].type), err |-> "none"]
    /\ lpc = "done" /\ lResult.err = "none" =>
           Len(attempts) > 0 /\ attempts[Len(attempts)].outcome = "ok"
    /\ lpc = "done" /\ lResult.err # "none" =>
           /\ lResult.id = Nil
           /\ Len(attempts) = Len(instanceTypes)
           /\ \A k \in 1..Len(attempts) : attempts[k].outcome # "ok"
    /\ instanceTypes = <<>> => attempts = <<>>
    /\ lpc # "done" => lResult = [id |-> Nil, err |-> "none"]

C9_Witness ==
    /\ lpc = "done"
    /\ Len(instanceTypes) = 3
    /\ Len(attempts) = 2
    /\ attempts[1].outcome = "capacity"
    /\ attempts[2].outcome = "ok"
    /\ lResult.id = StartedId(instanceTypes[2])

\* C10: shouldBeReplacedWithSpot answers true only for an instance of the
\* enabled group, whose group needs replacement, that is not a spot instance,
\* not protected from scale-in and not protected from termination; a failed
\* describe call counts as protection, and the swap then neither replaces nor
\* terminates the instance.
C10_ShouldBeReplaced ==
    \A s \in Swaps :
        checked[s].done =>
            /\ checked[s].verdict =>
                   /\ odInstance[s].asgTag = GroupName
                   /\ checked[s].needs
                   /\ odInstance[s].lifecycle # "spot"
                   /\ odInstanceID[s] \notin group.scaleInProtected
                          \/ odInstanceID[s] \notin group.members
                   /\ checked[s].dia = "unprotected"
            /\ checked[s].dia = "error" =>
                   /\ ~checked[s].verdict
                   /\ ~Issued(s, "TerminateInstanceInAutoScalingGroup")
                   /\ ~Issued(s, "AttachInstances")
                   /\ replaced[s] = Nil

C10_Witness ==
    \E s \in Swaps :
        /\ checked[s].done
        /\ checked[s].dia = "error"
        /\ checked[s].needs
        /\ odInstance[s] = [lifecycle |-> "normal", asgTag |-> GroupName]
        /\ odInstanceID[s] \notin group.scaleInProtected
        /\ result[s] = "not-replaceable"
        /\ odInstanceID[s] \in group.members


(* ------------------------------ the registry --------------------------- *)

DeliveredIds == {delivered[k].id : k \in 1..Len(delivered)}

\* C11: a traversal started by instances() sees one consistent snapshot of the
\* registry: while it runs no add() or make() takes effect, every record it
\* delivers is the snapshot's record of an id of the snapshot, no id is delivered
\* twice, and when the channel is closed every id of the snapshot was delivered
C11_TraversalSnapshot ==
    /\ itpc \in {"range", "closed"} => catalog = snapshot
    /\ \A k \in 1..Len(delivered) :
          /\ delivered[k].id \in Present(snapshot)
          /\ delivered[k].rec = snapshot[delivered[k].id]
          /\ \A j \in 1..Len(delivered) : delivered[j].id = delivered[k].id => j = k
    /\ itpc \in {"closed", "done"} => DeliveredIds = Present(snapshot)

\* a traversal delivered two records and was closed while a writer was waiting
C11_Witness ==
    /\ itpc = "closed"
    /\ Len(delivered) = 2
    /\ \E t \in OpThreads : oppc[t] = "lock" /\ opReq[t].kind = "add"

\* C12: when the consumer has dropped the channel and no thread can move any
\* more, the read lock is released and no add() or make() is left waiting
C12_DroppedTraversalReleasesGuard ==
    (cpc = "dropped" /\ ~ENABLED NextRegistry) =>
        /\ rw.readers = 0
        /\ \A t \in OpThreads : oppc[t] # "lock"

\* C28: a consumer that calls get() or count() for every record it receives is
\* never left in such a call with no thread able to move: whenever the registry
\* has come to rest, the consumer is not inside a nested read
C28_NestedReadFinishes ==
    (nested /\ ~ENABLED NextRegistry) => cpc # "get"

\* the operations of h that took effect after the last make()
SinceMake(h) ==
    LET resets == {k \in 1..Len(h) : h[k].kind = "make"}
        last == IF resets = {} THEN 0 ELSE CHOOSE k \in resets : \A j \in resets : j <= k
    IN {k \in (last + 1)..Len(h) : h[k].kind = "add"}

\* the record an id has after the operations of h
Expected(h, id) ==
    LET adds == {k \in SinceMake(h) : h[k].id = id}
    IN IF adds = {} THEN NilInstance
       ELSE h[CHOOSE k \in adds : \A j \in adds : j <= k].rec

ExpectedCount(h) == Cardinality({h[k].id : k \in SinceMake(h)})

\* C13: the registry is a map from id to record: an id has the record of the last
\* add() of that id since the last make(), count() returns the number of distinct
\* ids added since then, get() of an id not added since then returns none, add(nil)
\* changes nothing, and after make() the count is 0
C13_MapSemantics ==
    /\ \A id \in ODIds : catalog[id] = Expected(history, id)
    /\ registryCount(catalog) = ExpectedCount(history)
    /\ (history # <<>> /\ history[Len(history)].kind = "make") => registryCount(catalog) = 0
    /\ \A t \in OpThreads :
          opRet[t].done =>
              LET h == SubSeq(history, 1, opRet[t].at)
              IN /\ opReq[t].kind = "get" => opRet[t].inst = Expected(h, opReq[t].id)
                 /\ opReq[t].kind = "count" => opRet[t].n = ExpectedCount(h)

\* an id was added twice with different records and get() returned the second
C13_Witness ==
    /\ Len(history) = 2
    /\ history[1].kind = "add" /\ history[2].kind = "add"
    /\ history[1].id = history[2].id
    /\ history[1].rec # history[2].rec
    /\ \E t \in OpThreads :
          /\ opRet[t].done /\ opRet[t].at = 2
          /\ opReq[t].kind = "get" /\ opReq[t].id = history[1].id
          /\ opRet[t].inst = history[2].rec

(* ------------------- compatible spot instance types -------------------- *)

IntelFamily == {"Intel Xeon Family", "AMD EPYC 7571", "Variable"}

ArmFamily == {"AWS Graviton Processor"}

SameFamily(a, b) == (a \in IntelFamily /\ b \in IntelFamily) \/ (a \in ArmFamily /\ b \in ArmFamily)

SpotPrice(in, T) ==
    IF in.i.AvailabilityZone \in DOMAIN T.spot THEN T.spot[in.i.AvailabilityZone] ELSE 0

EffectivePrice(in, T) ==
    SpotPrice(in, T) + (IF in.i.EbsOptimized THEN T.ebsSurcharge ELSE 0)

ListsAccept(in, T) ==
    IF in.allowedList # <<>>
    THEN \E k \in DOMAIN in.allowedList : Match(in.allowedList[k], T.instanceType)
    ELSE \A k \in DOMAIN in.disallowedList : ~Match(in.disallowedList[k], T.instanceType)

StorageAccepts(in, T) ==
    LET I == in.i.typeInfo
        mapped == IF in.i.lcMappings > in.i.ltMappings THEN in.i.lcMappings
                  ELSE in.i.ltMappings
        V == IF mapped < I.instanceStoreDeviceCount THEN mapped
             ELSE I.instanceStoreDeviceCount
    IN \/ V = 0
       \/ /\ T.instanceStoreDeviceCount >= V
          /\ T.instanceStoreDeviceSize >= I.instanceStoreDeviceSize
          /\ (T.instanceStoreIsSSD \/ ~I.instanceStoreIsSSD)

VirtualizationAccepts(in, T) ==
    LET types == IF T.virtualizationTypes = <<>> THEN {"HVM"}
                 ELSE {T.virtualizationTypes[k] : k \in DOMAIN T.virtualizationTypes}
    IN \/ in.i.VirtualizationType = "paravirtual" /\ "PV" \in types
       \/ in.i.VirtualizationType = "hvm" /\ "HVM" \in types

Satisfies(in, T) ==
    /\ ListsAccept(in, T)
    /\ EffectivePrice(in, T) > 0 /\ EffectivePrice(in, T) <= in.i.price
    /\ T.EBSThroughput >= in.i.typeInfo.EBSThroughput
    /\ SameFamily(in.i.typeInfo.PhysicalProcessor, T.PhysicalProcessor)
    /\ T.vCPU >= in.i.typeInfo.vCPU
    /\ T.memory >= in.i.typeInfo.memory
    /\ T.GPU >= in.i.typeInfo.GPU
    /\ StorageAccepts(in, T)
    /\ VirtualizationAccepts(in, T)

SatisfyingTypes(in) == {in.catalog[n] : n \in {m \in DOMAIN in.catalog : Satisfies(in, in.catalog[m])}}

Returned == {ret.types[k] : k \in DOMAIN ret.types}

\* C14: the list the filter returns holds exactly the types of the catalog that
\* satisfy the six predicates (lists, price, EBS throughput, class, storage,
\* virtualization); every returned type has at least the vCPUs, memory, GPUs and
\* EBS throughput of the instance, its CPU family and an effective price of at
\* most the instance's price; an error is returned iff no type satisfies them
C14_ExactlyCompatible ==
    called =>
        /\ Returned = SatisfyingTypes(args)
        /\ ret.err <=> SatisfyingTypes(args) = {}
        /\ \A T \in Returned :
              /\ T.vCPU >= args.i.typeInfo.vCPU
              /\ T.memory >= args.i.typeInfo.memory
              /\ T.GPU >= args.i.typeInfo.GPU
              /\ SameFamily(args.i.typeInfo.PhysicalProcessor, T.PhysicalProcessor)
              /\ T.EBSThroughput >= args.i.typeInfo.EBSThroughput
              /\ EffectivePrice(args, T) <= args.i.price

\* one of two types was returned, for an instance of the ARM family
C14_Witness ==
    /\ called
    /\ Cardinality(DOMAIN args.catalog) = 2
    /\ Len(ret.types) = 1
    /\ args.i.typeInfo.PhysicalProcessor \in ArmFamily

\* C15: no returned type is without a spot price in the instance's availability
\* zone, whatever the instance's EBS-optimized flag and the type's surcharge
C15_NoSpotPriceNotAccepted ==
    called => \A T \in Returned : SpotPrice(args, T) > 0

\* C16: the returned list is a permutation of the accepted types and its
\* effective prices do not decrease
C16_SortedPermutation ==
    called =>
        /\ Returned = SatisfyingTypes(args)
        /\ Len(ret.types) = Cardinality(SatisfyingTypes(args))
        /\ \A j, k \in DOMAIN ret.types :
              j < k => EffectivePrice(args, ret.types[j]) <= EffectivePrice(args, ret.types[k])

\* the cheaper of two returned types has the later name
C16_Witness ==
    /\ called
    /\ Len(ret.types) = 2
    /\ EffectivePrice(args, ret.types[1]) < EffectivePrice(args, ret.types[2])
    /\ StringLess(ret.types[2].instanceType, ret.types[1].instanceType)

\* C17: two returned types of equal effective price are in the order of their
\* names, for every number of types
C17_TiesInNameOrder ==
    called =>
        \A j, k \in DOMAIN ret.types :
            (j < k /\ EffectivePrice(args, ret.types[j]) = EffectivePrice(args, ret.types[k]))
                => StringLess(ret.types[j].instanceType, ret.types[k].instanceType)

(* ----------------------------- getPriceToBid --------------------------- *)

\* the aggressive bid before the cap, in hundredths
BufferedBid ==
    (args.currentSpotPrice - args.spotPremium) * (100 + args.conf.SpotPriceBufferPercentage)
        + args.spotPremium * 100

\* C18: under the normal policy the bid is the base on-demand price; under the
\* aggressive policy it is the lesser of the base on-demand price and
\* (spot - premium) * (1 + B/100) + premium, and so never above the base price
C18_BidFormula ==
    called =>
        /\ args.conf.BiddingPolicy = "normal" => ret = args.baseOnDemandPrice * 100
        /\ args.conf.BiddingPolicy = "aggressive" =>
              /\ ret = IF BufferedBid <= args.baseOnDemandPrice * 100
                       THEN BufferedBid
                       ELSE args.baseOnDemandPrice * 100
              /\ ret <= args.baseOnDemandPrice * 100

\* an aggressive bid below the base price, with a buffer, above the spot price
C18_Witness ==
    /\ called
    /\ args.conf.BiddingPolicy = "aggressive"
    /\ args.conf.SpotPriceBufferPercentage > 0
    /\ ret < args.baseOnDemandPrice * 100
    /\ ret > args.currentSpotPrice * 100

\* C19: the bid is strictly positive for every policy when the base price is
\* positive and the spot price, the premium and the buffer are not negative
C19_BidPositive ==
    (called /\ args.baseOnDemandPrice > 0) => ret > 0

(* ---------------------------- generateTagsList ------------------------- *)

ReservedKeys ==
    {"launched-by-autospotting", "launched-for-asg", "launched-for-replacing-instance",
     "LaunchTemplateID", "LaunchTemplateVersion", "LaunchConfigurationName"}

IsAwsKey(key) == key \in {"aws:autoscaling:groupName", "aws:cloudformation:stack-name"}

SourceTags == {args.Tags[k] : k \in DOMAIN args.Tags}

\* C20: no tag of the source whose key begins with "aws:" or is reserved is in
\* the generated list, every other tag of the source is, and each reserved key
\* is in the list at most once
C20_TagCopy ==
    called =>
        /\ \A k \in DOMAIN ret :
              ret[k] \in SourceTags => ~IsAwsKey(ret[k].Key) /\ ret[k].Key \notin ReservedKeys
        /\ \A t \in SourceTags :
              (~IsAwsKey(t.Key) /\ t.Key \notin ReservedKeys) => \E k \in DOMAIN ret : ret[k] = t
        /\ \A j, k \in DOMAIN ret :
              (ret[j].Key \in ReservedKeys /\ ret[j].Key = ret[k].Key) => j = k

(* ------------------------ block device mappings ------------------------ *)

NoIO2Regions ==
    {"us-gov-west-1", "us-gov-east-1", "sa-east-1", "cn-north-1", "cn-northwest-1",
     "eu-south-1", "af-south-1", "eu-west-3", "ap-northeast-3"}

\* the entry of the input a converted entry comes from
InputOf(out) == CHOOSE BDM \in {args.BDMs[k] : k \in DOMAIN args.BDMs} :
                    BDM.DeviceName = out.DeviceName

HasEbs(BDM) == BDM.Ebs # <<>>

\* the volume type the rule gives a volume of type t and size z
Rewritten(t, z) ==
    IF t = "io1" /\ args.asg.region \notin NoIO2Regions THEN "io2"
    ELSE IF t = "gp2" /\ z <= args.asg.GP2ConversionThreshold THEN "gp3"
    ELSE t

\* C21: whatever the source (image, launch configuration, launch template), a
\* converted volume that has a type and a size has the type the rule gives:
\* io1 becomes io2 iff the region supports io2, gp2 becomes gp3 iff the size is
\* at most the group's threshold, every other volume keeps its type
C21_VolumeTypeRule ==
    (called /\ ~ret.panic) =>
        \A k \in DOMAIN ret.bds :
            LET out == ret.bds[k]
                BDM == InputOf(out)
            IN (HasEbs(BDM) /\ BDM.Ebs[1].VolumeType # <<>> /\ BDM.Ebs[1].VolumeSize # <<>>) =>
                  /\ HasEbs(out)
                  /\ out.Ebs[1].VolumeType =
                        <<Rewritten(BDM.Ebs[1].VolumeType[1], BDM.Ebs[1].VolumeSize[1])>>

\* a launch template volume of type gp2 and of the threshold's size became gp3
C21_Witness ==
    /\ called
    /\ args.source = "lt"
    /\ ~ret.panic
    /\ \E k \in DOMAIN ret.bds :
          /\ HasEbs(InputOf(ret.bds[k]))
          /\ InputOf(ret.bds[k]).Ebs[1].VolumeType = <<"gp2">>
          /\ InputOf(ret.bds[k]).Ebs[1].VolumeSize = <<args.asg.GP2ConversionThreshold>>
          /\ ret.bds[k].Ebs[1].VolumeType = <<"gp3">>

IsNoDevice(BDM) ==
    IF args.source = "lc" THEN BDM.NoDevice = <<TRUE>> ELSE BDM.NoDevice = <<"true">>

\* volumes of type gp2 have a size
SizesPresent ==
    \A k \in DOMAIN args.BDMs :
        (HasEbs(args.BDMs[k]) /\ args.BDMs[k].Ebs[1].VolumeType = <<"gp2">>)
            => args.BDMs[k].Ebs[1].VolumeSize # <<>>

\* C22: whatever the source, the conversion of mappings with a volume whose type
\* is missing completes, keeps that entry unless it is marked no_device, and
\* leaves its type missing
C22_MissingTypeKept ==
    (called /\ SizesPresent) =>
        /\ ~ret.panic
        /\ \A k \in DOMAIN args.BDMs :
              (/\ HasEbs(args.BDMs[k])
               /\ args.BDMs[k].Ebs[1].VolumeType = <<>>
               /\ ~IsNoDevice(args.BDMs[k])) =>
                  \E j \in DOMAIN ret.bds :
                      /\ ret.bds[j].DeviceName = args.BDMs[k].DeviceName
                      /\ HasEbs(ret.bds[j])
                      /\ ret.bds[j].Ebs[1].VolumeType = <<>>

KeptInput == SelectSeq(args.BDMs, LAMBDA BDM : ~IsNoDevice(BDM))

\* C23: whatever the source, the converted mappings are, in the order of the
\* input, the entries of the input that are not marked no_device, and the
\* result is none iff there is no such entry
C23_NoDeviceOmitted ==
    called =>
        /\ ~ret.panic
        /\ Len(ret.bds) = Len(KeptInput)
        /\ \A k \in DOMAIN ret.bds : ret.bds[k].DeviceName = KeptInput[k].DeviceName
        /\ ret.nil <=> KeptInput = <<>>

(* ------------------------- the temporary max size ---------------------- *)

\* the positions in the log of the calls of op that swap s issued
PositionsOf(s, op) == {k \in 1..Len(calls) : calls[k].swap = s /\ calls[k].op = op}

\* C24: a swap that passed its pre-conditions issues set-max-size calls iff the
\* desired capacity of the group equalled its max size when the swap was called:
\* then it sets max + 1 before the attach and, once it has returned, has set
\* the max size it found after the attach and made no other such call;
\* otherwise it makes none
C24_TemporaryMaxSize ==
    \A s \in Swaps :
        LET sets == PositionsOf(s, "SetMaxSize")
            attaches == PositionsOf(s, "AttachInstances")
            atMax == asgDesiredCapacity[s] = asgMaxSize[s]
        IN /\ sets # {} => atMax
           /\ (attaches # {} /\ atMax) =>
                 \E k \in sets :
                     /\ calls[k].arg = asgMaxSize[s] + 1
                     /\ \A j \in sets : k <= j
                     /\ \A j \in attaches : k < j
           /\ (attaches # {} /\ atMax /\ pc[s] = "done") =>
                 /\ Cardinality(sets) = 2
                 /\ \E k \in sets :
                       /\ calls[k].arg = asgMaxSize[s]
                       /\ \A j \in sets : j <= k
                       /\ \A j \in attaches : j < k
           /\ (pc[s] = "done" /\ ~atMax) => sets = {}

\* a swap of a group at its max size replaced an instance and returned, and the
\* group has the max size it had
C24_Witness ==
    \E s \in Swaps :
        /\ pc[s] = "done"
        /\ result[s] = "ok"
        /\ asgDesiredCapacity[s] = asgMaxSize[s]
        /\ Cardinality(PositionsOf(s, "SetMaxSize")) = 2
        /\ group.maxSize = asgMaxSize[s]

(* -------------------------- handleInstanceStates ----------------------- *)

HasTag(key) == \E k \in DOMAIN args.i.Tags : args.i.Tags[k].Key = key

\* the instance targets an enabled group and is not a member of it
TargetsEnabledGroupUnattached ==
    \E g \in args.region.enabledASGs :
        /\ \E k \in DOMAIN args.i.Tags :
              args.i.Tags[k].Key = "launched-for-asg" /\ args.i.Tags[k].Value = g.name
        /\ args.i.InstanceId \notin g.members

\* C25: an instance that is not running is skipped with an error; a running
\* instance is not skipped exactly when it has the tag launched-by-autospotting,
\* is not a member of the group it targets and that group is enabled; every
\* other running instance is skipped without an error
C25_StateRouting ==
    called =>
        /\ args.i.State # "running" => ret.skip /\ ret.err # "nil"
        /\ args.i.State = "running" =>
              IF HasTag("launched-by-autospotting") /\ TargetsEnabledGroupUnattached
              THEN ~ret.skip
              ELSE ret.skip /\ ret.err = "nil"

(* ---------------------------- isReadyToAttach -------------------------- *)

\* C26: the instance is ready iff it is running and its uptime, now minus the
\* launch time in seconds, is greater than the grace period of the group
C26_ReadyToAttach ==
    called =>
        (ret <=> (args.i.State = "running"
                    /\ args.now - args.i.LaunchTime > args.asg.HealthCheckGracePeriod))

\* a running instance whose uptime is the grace period is not ready
C26_Witness ==
    /\ called
    /\ args.i.State = "running"
    /\ args.asg.HealthCheckGracePeriod > 0
    /\ args.now - args.i.LaunchTime = args.asg.HealthCheckGracePeriod
    /\ ret = FALSE

(* ------------------------ createRunInstancesInput ---------------------- *)

\* the group has a launch template and a launch configuration, and the request
\* was built
BothLayers ==
    /\ called
    /\ ~ret.err /\ ~ret.panic
    /\ args.i.asg.LaunchTemplate # <<>>
    /\ args.i.asg.launchConfiguration # <<>>

DeviceNames(bds) == [k \in DOMAIN bds |-> bds[k].DeviceName]

\* C27: when the launch template and the launch configuration of a group both
\* supply block device mappings, the request has those of the template, and
\* when both supply network interfaces, the request has those of the template
C27_TemplateOverrides ==
    BothLayers =>
        LET lc == args.i.asg.launchConfiguration[1]
           ltData == args.ltData.data
        IN /\ (ltData.BlockDeviceMappings # <<>> /\ lc.BlockDeviceMappings # <<>>) =>
                 DeviceNames(ret.retval.BlockDeviceMappings.bds)
                     = DeviceNames(ltData.BlockDeviceMappings)
           /\ (/\ ltData.NetworkInterfaces # <<>>
               /\ (lc.AssociatePublicIpAddress # <<>> \/ args.i.SubnetId # <<>>)) =>
                 [k \in DOMAIN ret.retval.NetworkInterfaces |->
                     ret.retval.NetworkInterfaces[k].DeviceIndex]
                     = [k \in DOMAIN ltData.NetworkInterfaces |->
                           ltData.NetworkInterfaces[k].DeviceIndex]

(* --------------------------- connections.connect ----------------------- *)

\* C29: connect() always comes to its end: when no step is left it has
\* returned (or session.Must has panicked before any goroutine was started);
\* every completed send is one receive of connect(), in the order of the
\* receives; on return no goroutine is left, the four handles are clients of
\* their own service made from the session of the struct, the region is the one
\* given, and a session that existed at the call is still the session
C29_ConnectCompletes ==
    mpc # "off" =>
        /\ ~ENABLED NextConnect => mpc \in {"returned", "panic"}
        /\ \A k \in 1..Len(ReceiveOrder) :
              /\ gpc[ReceiveOrder[k]] = "done" <=> k <= Len(recvd)
              /\ k <= Len(recvd) => recvd[k] = made[ReceiveOrder[k]]
        /\ mpc = "panic" => \A g \in Services : gpc[g] = "unborn"
        /\ mpc = "returned" =>
              /\ \A g \in Services : gpc[g] = "done"
              /\ conn.session # <<>>
              /\ conn.autoScaling = New("autoscaling", conn.session)
              /\ conn.ec2 = New("ec2", conn.session)
              /\ conn.cloudFormation = New("cloudformation", conn.session)
              /\ conn.lambda = New("lambda", conn.session)
              /\ conn.region = connArgs.region
              /\ connArgs.session # <<>> => conn.session = connArgs.session

\* connect() returned for a struct that had a session of another region
C29_Witness ==
    /\ mpc = "returned"
    /\ connArgs.session # <<>>
    /\ connArgs.session[1].Region # connArgs.region

====
